---- MODULE Spec2Model ----
(***************************************************************************)
(* OpSentra: the aggregator (backend-node server: broker consumers, store  *)
(* writer, SSE subscriber hub, S3 archival) and the two log shippers       *)
(* (the tail -f shipper and the batching Tail shipper), as state machines. *)
(* One time unit of the clock is five minutes.                             *)
(***************************************************************************)
EXTENDS Integers, Sequences, FiniteSets, TLC

\* ------------------------------------------------------------------ bounds
\* records published / deliveries made / enrichment messages, per specification
MaxMsgs == 2
MaxDeliveries == 3
MaxEnriched == 1
HubMaxMsgs == 2
HubMaxDeliveries == 2
MaxClients == 1

ArchMaxMsgs == 2
ArchMaxDeliveries == 2
MaxTime == 4
SyncMaxMsgs == 1
SyncMaxDeliveries == 2
SyncMaxTime == 3
CoverageMaxMsgs == 3
CoverageMaxTime == 6
\* lines written to the tailed file, and lines per stdout chunk
TailMaxLines == 5
MaxChunkLines == 2
BatchMaxLines == 4
\* consecutive failed connection attempts of the tail -f shipper
TailMaxFailures == 3
\* the capacity of the shipper's record queue, scaled down to a few records
QueueCapacity == 3
\* reconnections of the aggregator after its first connection
AggMaxConnects == 2
\* the hub under its heartbeat timer: records, deliveries, subscribers, and
\* time in units of fifteen seconds
HbMaxMsgs == 1
HbMaxDeliveries == 1
HbMaxClients == 1
HbMaxTime == 4
\* the hub with slow readers: records, subscribers, and the per-subscriber
\* buffer limit scaled down to a few events
BacklogMaxMsgs == 4
BacklogMaxClients == 1
BufferLimit == 2
\* the aggregator at shutdown and under broker faults
ShutMaxMsgs == 2
ShutMaxDeliveries == 2
ShutMaxClients == 1
FaultMaxMsgs == 2
FaultMaxDeliveries == 2
\* fan-out to subscribers with failing sinks
FanMaxMsgs == 1
FanMaxDeliveries == 1
FanMaxClients == 2
FanMaxTime == 2
\* records and subscribers of the hub of class OpSentraBackend
ClsMaxLogs == 4
ClsMaxClients == 3
\* messages and deliveries of the raw-logs consumer under failing handlers
PoisonMaxMsgs == 2
PoisonMaxDeliveries == 5

\* ------------------------------------------------------- program constants
\* rabbitmqChannel.prefetch(10)
Prefetch == 10
\* cron '*/10 * * * *' and the window 10 * 60 * 1000 ms, in time units of five minutes
Interval == 2
Window == 2
\* { $limit: 10000 }, scaled down to a store of a few documents
BatchLimit == 2

\* reconnectInterval = 5000 and maxReconnectInterval = 30000 of the tail -f
\* shipper, in half milliseconds (so that 1.5 times a delay is an integer)
BaseInterval == 10000
MaxReconnectInterval == 60000
\* MAX_RETRY_COUNT of the aggregator
MaxRetryCount == 10
\* this.maxRecentLogs = 1000, scaled down to a few records
MaxRecentLogs == 2
\* setInterval(sendSSEHeartbeat, 30000), in units of fifteen seconds
HeartbeatPeriod == 2

\* batchSize: LOG_BATCH_SIZE || BATCH_SIZE || 100, scaled down to bursts of a few lines
BatchSize == 2

Services == {"nginx", "mysql"}
\* the files on the host, and the LOG_PATHS settings considered: a glob, a
\* plain path, and both
Paths == {"/var/log/app.log"}
LogPathsSettings ==
  {<<"/var/log/*.log">>, <<"/var/log/app.log">>,
   <<"/var/log/*.log", "/var/log/app.log">>}
\* req.query.service absent (or empty): a falsy serviceFilter
NoFilter == "none"
\* a field the payload does not carry (data.service of an enrichment message)
Undefined == "undefined"

VARIABLES
  \* ---- broker side of the aggregator
  rawQueue,      \* messages ready in queue raw-logs, head first
  aiQueue,       \* messages ready in queue ai-enriched
  nextMsg,       \* id of the next message the environment publishes
  nextEnriched,  \* number of enrichment messages published so far
  nextTag,       \* the channel's next delivery tag
  rawHandlers,   \* raw-logs callbacks suspended at await insertToMongo
  aiHandlers,    \* ai-enriched callbacks suspended at await updateLogWithAI
  acked,         \* <<queue, delivery tag>> acknowledged with channel.ack
  nacked,        \* <<queue, delivery tag>> rejected with channel.nack(msg, false, true)
  insertFailed,  \* delivery tags whose insertOne threw
  \* ---- store
  logsCollection,  \* the documents of collection logs, in insertion order
  \* ---- subscriber hub
  sseClients,    \* clientId -> [serviceFilter]
  sseClientId,   \* the id counter
  broken,        \* clients whose res.write throws
  written,       \* clientId -> the events written to its response, in order
  filterOf,      \* clientId -> the serviceFilter it registered with (kept after removal)
  faults,        \* TRUE once a store or object-store call has thrown
  \* ---- clock and archival
  now,           \* Date.now(), in time units
  runs,          \* the invocations of batchProcessToS3, in cron order
  objects,       \* the objects put in the bucket, in upload order
  bucketExists,  \* the bucket opsentra-logs-<ip> exists
  marks,         \* <<run, document>>: the run's updateMany set synced on the document
  bucketCreators, \* the runs whose CreateBucket succeeded
  \* ---- the tail -f shipper
  tailWritten,   \* lines of the tailed file that tail has written to stdout
  dataHandlers,  \* stdout 'data' callbacks suspended in parseLogLine, by chunk
  tailChunks,    \* number of 'data' events so far
  tailPublished, \* the lines published to logs_exchange, in order
  \* ---- the batching shipper
  logSources,    \* the sources discoverAndMonitorLogs started a Tail for
  fileLen,       \* path -> number of lines written to the file
  tailPos,       \* index in logSources -> lines its Tail has emitted
  logBuffer,     \* this.logBuffer
  batchTimer,    \* this.batchTimer is armed
  microtasks,    \* the flushBuffer calls suspended at an await, next to run first
  published,     \* the entries published to logs_exchange, in order
  channelOpen,   \* this.rabbitmqChannel is open
  everClosed,    \* the broker connection has closed at some time
  \* ---- timers of the aggregator's hub and redeliveries
  hbClock,       \* the time since startServer, in units of fifteen seconds
  requeues,      \* message id -> times its delivery was nacked with requeue
  writeFailed,   \* the clients deleted from sseClients because a write threw
  sinkRead,      \* client id -> the number of written events its reader has taken
  startPc,       \* the await startServer is at, "done" after it, "exited" after an exit
  started,       \* the components startServer has started, in order
  exitCode,      \* "running", or the status process.exit was called with
  shutPc,        \* "none", or the close the SIGTERM handler is awaiting
  rabbitmqConnection, \* TRUE when rabbitmqConnection holds a connection object
  \* ---- record building of the two shippers
  builderIn,     \* the line a shipper reads and the source it reads it from
  builderOut,    \* whether the line was processed, and the records built from it
  broker,        \* the broker: what is declared on it and where it put each message
  \* ---- the aggregator's fetch endpoint
  apiRequest,    \* the query of a GET /api/logs and the records that match it
  apiResponse,   \* its response, not yet sent at first
  \* ---- the tail processes and the shutdown of the tail -f shipper
  tailProcess,   \* path -> number of running tail -f processes started for it
  exitTimers,    \* path -> pending restart timers armed by an 'exit' handler
  errorTimers,   \* path -> pending restart timers armed by an 'error' handler
  missing,       \* the paths whose file is missing or unreadable, for good
  isShuttingDown, \* isShuttingDown
  shutdownPcs,   \* the await each running gracefulShutdown call is at, by signal
  tailChannel,   \* the broker channel: "open", "closing" or "closed"
  tailConn,      \* the broker connection: "open", "closing" or "closed"
  shipperExit,   \* "running", or the status process.exit was called with
  startedInShutdown, \* a tail process was started while isShuttingDown
  \* ---- the stdout of one tail process, read in chunks
  stdoutBytes,   \* the bytes tail writes to its stdout, in order
  stdoutRead,    \* how many of them have been handed to 'data' callbacks
  lineBuffer,    \* buffer: the characters of the line not yet complete
  emittedLines,  \* the lines the loop of the 'data' callback has taken up, in order
  \* ---- broker connection of the tail -f shipper
  isConnected,       \* isConnected
  tailAttempt,       \* the connectRabbitMQ call pending: "none", "main" or "timer"
  tailTimers,        \* the delays of the pending scheduleReconnection timers
  reconnectInterval, \* reconnectInterval, in half milliseconds
  tailDelays,        \* the delays of the timers armed since the last connection
  \* ---- broker connection of the aggregator
  aggOpen,           \* number of open broker connections, each with its consumers
  aggErrored,        \* number of connections that emitted 'error', with 'close' to come
  aggConnects,       \* number of reconnections made so far
  aggAttempts,       \* number of connectRabbitMQ calls pending
  aggTimers,         \* number of pending scheduleRabbitMQReconnect timers
  rabbitmqRetryCount, \* rabbitmqRetryCount
  aggExited,         \* process.exit(1) was called
  aggFailures,       \* connect attempts failed since the last successful one
  \* ---- the hub of class OpSentraBackend
  recentLogs,    \* this.recentLogs
  clsProcessed,  \* number of raw logs processRawLog has handled
  clsClients,    \* this.sseClients, as client numbers
  clsWritten     \* client number -> the records written to its response, and
                 \* the number of records handled before it registered

aggVars == <<rawQueue, aiQueue, nextMsg, nextEnriched, nextTag, rawHandlers,
             aiHandlers, acked, nacked, insertFailed, logsCollection,
             sseClients, sseClientId, broken, written, filterOf, faults>>

archVars == <<now, runs, objects, bucketExists, marks, bucketCreators>>

tailVars == <<tailWritten, dataHandlers, tailChunks, tailPublished>>

batchVars == <<logSources, fileLen, tailPos, logBuffer, batchTimer, microtasks,
               published, channelOpen, everClosed>>

shipVars == <<tailVars, batchVars>>

tailConnVars == <<isConnected, tailAttempt, tailTimers, reconnectInterval, tailDelays>>

aggConnVars == <<aggOpen, aggErrored, aggConnects, aggAttempts, aggTimers,
                 rabbitmqRetryCount, aggExited, aggFailures>>

clsVars == <<recentLogs, clsProcessed, clsClients, clsWritten>>

otherVars == <<hbClock, tailConnVars, aggConnVars, clsVars>>

\* the aggregator process: its startup and its exit
lifeVars == <<startPc, started, exitCode, shutPc>>

\* the fetch endpoint
apiVars == <<apiRequest, apiResponse>>

\* the tail processes of the tail -f shipper and its shutdown
tailerVars == <<tailProcess, exitTimers, errorTimers, missing, isShuttingDown,
                shutdownPcs, tailChannel, tailConn, shipperExit, startedInShutdown>>

\* the splitting of a tail process's output into lines
splitVars == <<stdoutBytes, stdoutRead, lineBuffer, emittedLines>>

lateVars == <<apiVars, tailerVars, splitVars>>

\* The record builder's input line and what it built from it.
buildVars == <<builderIn, builderOut, broker, lateVars>>

\* the subscribers' sinks, the process, and the connection object it holds
runVars == <<sinkRead, lifeVars, rabbitmqConnection, buildVars>>

extVars == <<requeues, writeFailed, runVars, otherVars>>

vars == <<aggVars, archVars, shipVars, extVars>>

\* ------------------------------------------------------------------ store

\* insertToMongo: a new document, synced false, _id generated by the store.
\* tag records the delivery that wrote the document.
InsertToMongo(coll, log, tag) ==
  Append(coll, [msg |-> log.id, service |-> log.service, timestamp |-> log.ts,
                synced |-> FALSE, syncedAt |-> Undefined, aiAnalysis |-> FALSE,
                aiProcessedAt |-> Undefined, tag |-> tag])

\* updateOne with a document instead of $set operators: the document is replaced
UpdateLogReplacing(coll, enrichedData) ==
  [k \in DOMAIN coll |->
     IF k = enrichedData.logId
     THEN [coll[k] EXCEPT !.aiAnalysis = TRUE, !.aiProcessedAt = now,
                          !.synced = FALSE, !.syncedAt = Undefined]
     ELSE coll[k]]

\* updateLogWithAI: $set of the analysis fields on the document whose _id is logId
UpdateLogWithAI(coll, enrichedData) ==
  [k \in DOMAIN coll |->
     IF k = enrichedData.logId
     THEN [coll[k] EXCEPT !.aiAnalysis = TRUE, !.aiProcessedAt = now]
     ELSE coll[k]]

\* -------------------------------------------------------------------- hub

\* a filter test that lets every client through
PassesFilterAlways(client, data) == TRUE

\* the filter test of broadcastToSSE: TRUE when the client is written the data
PassesFilter(client, data) ==
  ~(client.serviceFilter # NoFilter /\ data.service # client.serviceFilter)

\* the event written for data; at is the time of the write (id: Date.now())
SseEvent(event, data, tag) ==
  [event |-> event, id |-> data.id, service |-> data.service, tag |-> tag,
   at |-> hbClock]

\* broadcastToSSE: the clients whose write threw
FailedWrites(data) ==
  {c \in DOMAIN sseClients : PassesFilter(sseClients[c], data) /\ c \in broken}

\* broadcastToSSE: the clients left in the Map after the loop
ClientsAfterBroadcast(data) ==
  [c \in {d \in DOMAIN sseClients :
            ~(PassesFilter(sseClients[d], data) /\ d \in broken)}
     |-> sseClients[c]]

\* a fan-out loop without its try/catch: the first write that throws ends it
WrittenAfterBroadcastAborting(event, data, tag) ==
  [c \in DOMAIN written |->
     IF /\ c \in DOMAIN sseClients
        /\ PassesFilter(sseClients[c], data)
        /\ \A d \in FailedWrites(data) : c < d
     THEN Append(written[c], SseEvent(event, data, tag))
     ELSE written[c]]

\* broadcastToSSE: what each response has been written after the loop
WrittenAfterBroadcast(event, data, tag) ==
  [c \in DOMAIN written |->
     IF c \in DOMAIN sseClients /\ PassesFilter(sseClients[c], data) /\ c \notin broken
     THEN Append(written[c], SseEvent(event, data, tag))
     ELSE written[c]]

\* app.get('/stream'): register a subscriber and write the connected event
Register(f, max) ==
  /\ sseClientId < max
  /\ sseClientId' = sseClientId + 1
  /\ sseClients' = sseClients @@ (sseClientId + 1 :> [serviceFilter |-> f])
  /\ written' = written @@ (sseClientId + 1 :>
        <<[event |-> "connected", id |-> sseClientId + 1, service |-> Undefined,
           tag |-> 0, at |-> hbClock]>>)
  /\ filterOf' = filterOf @@ (sseClientId + 1 :> f)
  /\ UNCHANGED <<rawQueue, aiQueue, nextMsg, nextEnriched, nextTag, rawHandlers,
                 aiHandlers, acked, nacked, insertFailed, logsCollection, broken, faults>>
  /\ UNCHANGED <<archVars, shipVars>>
  /\ UNCHANGED extVars

\* req.on('close') / req.on('error'): the subscriber leaves the Map
Disconnect(c) ==
  /\ c \in DOMAIN sseClients
  /\ sseClients' = [d \in DOMAIN sseClients \ {c} |-> sseClients[d]]
  /\ UNCHANGED <<rawQueue, aiQueue, nextMsg, nextEnriched, nextTag, rawHandlers,
                 aiHandlers, acked, nacked, insertFailed, logsCollection,
                 sseClientId, broken, written, filterOf, faults>>
  /\ UNCHANGED <<archVars, shipVars>>
  /\ UNCHANGED extVars

\* environment: the sink of a registered subscriber starts to throw on write
SinkBreaks(c) ==
  /\ c \in DOMAIN sseClients
  /\ c \notin broken
  /\ broken' = broken \cup {c}
  /\ UNCHANGED <<rawQueue, aiQueue, nextMsg, nextEnriched, nextTag, rawHandlers,
                 aiHandlers, acked, nacked, insertFailed, logsCollection,
                 sseClients, sseClientId, written, filterOf, faults>>
  /\ UNCHANGED <<archVars, shipVars>>
  /\ UNCHANGED extVars

\* the events written to client c that its reader has not taken: they are
\* held in the response's write buffer (res.write returns false, which
\* broadcastToSSE does not read)
ReadBy(c) == IF c \in DOMAIN sinkRead THEN sinkRead[c] ELSE 0
Backlog(c) == Len(written[c]) - ReadBy(c)

\* environment: the reader of client c takes the next event from its socket
ClientReads(c) ==
  /\ c \in DOMAIN sseClients
  /\ Backlog(c) > 0
  /\ sinkRead' = [d \in DOMAIN sinkRead \cup {c} |-> IF d = c THEN ReadBy(c) + 1 ELSE ReadBy(d)]
  /\ UNCHANGED <<aggVars, archVars, shipVars, requeues, writeFailed, lifeVars, buildVars,
                 rabbitmqConnection, otherVars>>

\* setInterval(sendSSEHeartbeat, 30000): the timer is due at time t
HeartbeatDue(t) == t % HeartbeatPeriod = 0

\* a heartbeat sent to the subscribers without a service filter only
HeartbeatTargetsUnfiltered(clients) ==
  {c \in DOMAIN clients : clients[c].serviceFilter = NoFilter}

\* sendSSEHeartbeat: the clients the loop writes to, all those in the Map
HeartbeatTargets(clients) == DOMAIN clients

\* environment and timer: fifteen seconds pass; when the heartbeat timer is
\* due sendSSEHeartbeat writes ': heartbeat' to every client and deletes
\* those whose write throws
HeartbeatTick(max) ==
  /\ hbClock < max
  /\ hbClock' = hbClock + 1
  /\ IF HeartbeatDue(hbClock + 1)
     THEN LET targets == HeartbeatTargets(sseClients)
              failed == targets \cap broken
          IN /\ written' =
                  [c \in DOMAIN written |->
                     IF c \in targets \ failed
                     THEN Append(written[c],
                                 [event |-> "heartbeat", id |-> 0, service |-> Undefined,
                                  tag |-> 0, at |-> hbClock + 1])
                     ELSE written[c]]
             /\ sseClients' = [c \in DOMAIN sseClients \ failed |-> sseClients[c]]
             /\ writeFailed' = writeFailed \cup failed
     ELSE UNCHANGED <<sseClients, written, writeFailed>>
  /\ UNCHANGED <<rawQueue, aiQueue, nextMsg, nextEnriched, nextTag, rawHandlers,
                 aiHandlers, acked, nacked, insertFailed, logsCollection,
                 sseClientId, broken, filterOf, faults>>
  /\ UNCHANGED <<archVars, shipVars, requeues, runVars, tailConnVars, aggConnVars, clsVars>>

\* --------------------------------------------------------------- consumers

\* environment: the broker puts a record published by a shipper in raw-logs;
\* json is FALSE for a payload JSON.parse rejects
PublishRaw(s, json, max) ==
  /\ nextMsg <= max
  /\ nextMsg' = nextMsg + 1
  /\ rawQueue' = Append(rawQueue, [id |-> nextMsg, service |-> s, ts |-> now, json |-> json])
  /\ UNCHANGED <<aiQueue, nextEnriched, nextTag, rawHandlers, aiHandlers, acked,
                 nacked, insertFailed, logsCollection, sseClients, sseClientId,
                 broken, written, filterOf, faults>>
  /\ UNCHANGED <<archVars, shipVars>>
  /\ UNCHANGED extVars

\* channel.nack(msg, false, true): the message goes back to the queue; one
\* more requeue of message id is counted
Requeued(r, id) ==
  IF id \in DOMAIN r THEN [r EXCEPT ![id] = @ + 1] ELSE r @@ (id :> 1)

\* the raw-logs callback ends with ack on the try path and nack in the catch
RawLogSettleAckAlways(parsed, inserted) == "ack"

RawLogSettle(parsed, inserted) ==
  IF parsed /\ inserted THEN "ack" ELSE "nack"

\* the raw-logs callback up to its first await: JSON.parse, then insertToMongo
\* is pending; a parse error goes to the catch at once
DeliverRaw(max) ==
  /\ rawQueue # <<>>
  /\ nextTag <= max
  /\ Cardinality(rawHandlers) < Prefetch
  /\ LET m == Head(rawQueue) IN
     /\ nextTag' = nextTag + 1
     /\ IF m.json
        THEN /\ rawHandlers' = rawHandlers \cup {[tag |-> nextTag, msg |-> m]}
             /\ rawQueue' = Tail(rawQueue)
             /\ UNCHANGED <<acked, nacked>>
        ELSE /\ UNCHANGED rawHandlers
             /\ IF RawLogSettle(FALSE, FALSE) = "ack"
                THEN /\ acked' = acked \cup {<<"raw-logs", nextTag>>}
                     /\ rawQueue' = Tail(rawQueue)
                     /\ UNCHANGED nacked
                ELSE /\ nacked' = nacked \cup {<<"raw-logs", nextTag>>}
                     /\ UNCHANGED <<rawQueue, acked>>
     /\ requeues' = IF ~m.json /\ RawLogSettle(FALSE, FALSE) = "nack"
                    THEN Requeued(requeues, m.id) ELSE requeues
  /\ UNCHANGED <<aiQueue, nextMsg, nextEnriched, aiHandlers, insertFailed,
                 logsCollection, sseClients, sseClientId, broken, written, filterOf, faults>>
  /\ UNCHANGED <<archVars, shipVars>>
  /\ UNCHANGED <<writeFailed, runVars, otherVars>>

\* the raw-logs callback after await insertToMongo resolved: broadcast, ack
InsertOk(h) ==
  /\ h \in rawHandlers
  /\ rawHandlers' = rawHandlers \ {h}
  /\ logsCollection' = InsertToMongo(logsCollection, h.msg, h.tag)
  /\ sseClients' = ClientsAfterBroadcast(h.msg)
  /\ written' = WrittenAfterBroadcast("log", h.msg, h.tag)
  /\ writeFailed' = writeFailed \cup FailedWrites(h.msg)
  /\ IF RawLogSettle(TRUE, TRUE) = "ack"
     THEN /\ acked' = acked \cup {<<"raw-logs", h.tag>>}
          /\ UNCHANGED <<nacked, rawQueue, requeues>>
     ELSE /\ nacked' = nacked \cup {<<"raw-logs", h.tag>>}
          /\ rawQueue' = <<h.msg>> \o rawQueue
          /\ requeues' = Requeued(requeues, h.msg.id)
          /\ UNCHANGED acked
  /\ UNCHANGED <<aiQueue, nextMsg, nextEnriched, nextTag, aiHandlers,
                 insertFailed, sseClientId, broken, filterOf, faults>>
  /\ UNCHANGED <<archVars, shipVars>>
  /\ UNCHANGED <<runVars, otherVars>>

\* the raw-logs callback after await insertToMongo threw: the catch
InsertFails(h) ==
  /\ h \in rawHandlers
  /\ rawHandlers' = rawHandlers \ {h}
  /\ insertFailed' = insertFailed \cup {h.tag}
  /\ IF RawLogSettle(TRUE, FALSE) = "ack"
     THEN /\ acked' = acked \cup {<<"raw-logs", h.tag>>}
          /\ UNCHANGED <<nacked, rawQueue, requeues>>
     ELSE /\ nacked' = nacked \cup {<<"raw-logs", h.tag>>}
          /\ rawQueue' = <<h.msg>> \o rawQueue
          /\ requeues' = Requeued(requeues, h.msg.id)
          /\ UNCHANGED acked
  /\ UNCHANGED <<aiQueue, nextMsg, nextEnriched, nextTag, aiHandlers,
                 logsCollection, sseClients, sseClientId, broken, written, filterOf>>
  /\ faults' = TRUE
  /\ UNCHANGED <<archVars, shipVars>>
  /\ UNCHANGED <<writeFailed, runVars, otherVars>>

\* environment: the enrichment service publishes an analysis of document logId
PublishEnriched(k, s) ==
  /\ nextEnriched < MaxEnriched
  /\ nextEnriched' = nextEnriched + 1
  /\ aiQueue' = Append(aiQueue, [id |-> k, logId |-> k, service |-> s])
  /\ UNCHANGED <<rawQueue, nextMsg, nextTag, rawHandlers, aiHandlers, acked,
                 nacked, insertFailed, logsCollection, sseClients, sseClientId,
                 broken, written, filterOf, faults>>
  /\ UNCHANGED <<archVars, shipVars>>
  /\ UNCHANGED extVars

\* the ai-enriched callback up to await updateLogWithAI
DeliverEnriched(max) ==
  /\ aiQueue # <<>>
  /\ nextTag <= max
  /\ Cardinality(aiHandlers) < Prefetch
  /\ nextTag' = nextTag + 1
  /\ aiHandlers' = aiHandlers \cup {[tag |-> nextTag, msg |-> Head(aiQueue)]}
  /\ aiQueue' = Tail(aiQueue)
  /\ UNCHANGED <<rawQueue, nextMsg, nextEnriched, rawHandlers, acked, nacked,
                 insertFailed, logsCollection, sseClients, sseClientId, broken,
                 written, filterOf, faults>>
  /\ UNCHANGED <<archVars, shipVars>>
  /\ UNCHANGED extVars

\* the ai-enriched callback after updateLogWithAI resolved: broadcast, ack
UpdateOk(h) ==
  /\ h \in aiHandlers
  /\ aiHandlers' = aiHandlers \ {h}
  /\ logsCollection' = UpdateLogWithAI(logsCollection, h.msg)
  /\ sseClients' = ClientsAfterBroadcast(h.msg)
  /\ written' = WrittenAfterBroadcast("ai-suggestion", h.msg, h.tag)
  /\ writeFailed' = writeFailed \cup FailedWrites(h.msg)
  /\ acked' = acked \cup {<<"ai-enriched", h.tag>>}
  /\ UNCHANGED <<rawQueue, aiQueue, nextMsg, nextEnriched, nextTag, rawHandlers,
                 nacked, insertFailed, sseClientId, broken, filterOf, faults>>
  /\ UNCHANGED <<archVars, shipVars>>
  /\ UNCHANGED <<requeues, runVars, otherVars>>

\* the ai-enriched callback after updateLogWithAI threw: nack with requeue
UpdateFails(h) ==
  /\ h \in aiHandlers
  /\ aiHandlers' = aiHandlers \ {h}
  /\ nacked' = nacked \cup {<<"ai-enriched", h.tag>>}
  /\ aiQueue' = <<h.msg>> \o aiQueue
  /\ UNCHANGED <<rawQueue, nextMsg, nextEnriched, nextTag, rawHandlers, acked,
                 insertFailed, logsCollection, sseClients, sseClientId, broken,
                 written, filterOf>>
  /\ faults' = TRUE
  /\ UNCHANGED <<archVars, shipVars>>
  /\ UNCHANGED extVars

\* ---------------------------------------------------------------- archival

\* the documents the $match stage selects: synced false, timestamp after since
Unsynced(since) ==
  {k \in DOMAIN logsCollection :
     ~logsCollection[k].synced /\ logsCollection[k].timestamp > since}

\* the results the aggregate may return: $match, then $limit with no $sort
\* keeps any BatchLimit of the matching documents
QueryResults(since) ==
  LET m == Unsynced(since) IN
  IF Cardinality(m) <= BatchLimit
  THEN {m}
  ELSE {S \in SUBSET m : Cardinality(S) = BatchLimit}

\* an updateMany on { synced: false } instead of the archived identifiers
LogIdsAllUnsynced(run) ==
  {k \in DOMAIN logsCollection : ~logsCollection[k].synced}

\* logIds = unsynced.map(log => log._id)
LogIds(run) == run.found

\* Metadata 'log-count': unsynced.length
LogCount(found) == Cardinality(found)

\* batchProcessToS3 up to its first await: tenMinutesAgo is fixed from Date.now()
NewRun(t) ==
  [pc |-> "query", since |-> t - Window, found |-> {}, failedAt |-> "none"]

\* the invocations of batchProcessToS3 that have not returned
InFlight == {r \in DOMAIN runs : runs[r].pc # "done"}

\* the clock moves on within a cron period
AdvanceClock(max) ==
  /\ now < max
  /\ (now + 1) % Interval # 0
  /\ now' = now + 1
  /\ UNCHANGED <<runs, objects, bucketExists, marks, bucketCreators>>
  /\ UNCHANGED aggVars
  /\ UNCHANGED shipVars
  /\ UNCHANGED extVars

\* the clock reaches a cron boundary: cron.schedule calls batchProcessToS3
CronTick(max) ==
  /\ now < max
  /\ (now + 1) % Interval = 0
  /\ now' = now + 1
  /\ runs' = Append(runs, NewRun(now + 1))
  /\ UNCHANGED <<objects, bucketExists, marks, bucketCreators>>
  /\ UNCHANGED aggVars
  /\ UNCHANGED shipVars
  /\ UNCHANGED extVars

\* the aggregate resolves with S; an empty result returns, otherwise the data
\* is compressed and the run goes on (fetchInstanceIp always resolves) to
\* createBucketIfMissing
QueryDone(r, S) ==
  /\ r \in DOMAIN runs
  /\ runs[r].pc = "query"
  /\ S \in QueryResults(runs[r].since)
  /\ runs' = [runs EXCEPT ![r].found = S,
                          ![r].pc = IF S = {} THEN "done" ELSE "head"]
  /\ UNCHANGED <<now, objects, bucketExists, marks, bucketCreators>>
  /\ UNCHANGED aggVars
  /\ UNCHANGED shipVars
  /\ UNCHANGED extVars

\* createBucketIfMissing: HeadBucket resolves, or rejects with NotFound
HeadBucket(r) ==
  /\ r \in DOMAIN runs
  /\ runs[r].pc = "head"
  /\ runs' = [runs EXCEPT ![r].pc = IF bucketExists THEN "put" ELSE "create"]
  /\ UNCHANGED <<now, objects, bucketExists, marks, bucketCreators>>
  /\ UNCHANGED aggVars
  /\ UNCHANGED shipVars
  /\ UNCHANGED extVars

\* createBucketIfMissing: CreateBucket; when the bucket has been created since
\* the HeadBucket, the command rejects and the rejection is not caught
CreateBucket(r) ==
  /\ r \in DOMAIN runs
  /\ runs[r].pc = "create"
  /\ IF bucketExists
     THEN /\ runs' = [runs EXCEPT ![r].pc = "done", ![r].failedAt = "bucket"]
          /\ UNCHANGED <<bucketExists, bucketCreators>>
     ELSE /\ runs' = [runs EXCEPT ![r].pc = "put"]
          /\ bucketExists' = TRUE
          /\ bucketCreators' = bucketCreators \cup {r}
  /\ UNCHANGED <<now, objects, marks>>
  /\ UNCHANGED aggVars
  /\ UNCHANGED shipVars
  /\ UNCHANGED extVars

\* PutObjectCommand resolves: one object holding the documents found, under a
\* key made of the time of the upload
PutObject(r) ==
  /\ r \in DOMAIN runs
  /\ runs[r].pc = "put"
  /\ objects' = Append(objects, [run |-> r, key |-> now, ids |-> runs[r].found,
                                 logCount |-> LogCount(runs[r].found)])
  /\ runs' = [runs EXCEPT ![r].pc = "mark"]
  /\ UNCHANGED <<now, bucketExists, marks, bucketCreators>>
  /\ UNCHANGED aggVars
  /\ UNCHANGED shipVars
  /\ UNCHANGED extVars

\* updateMany resolves: synced true on the documents of logIds
MarkSynced(r) ==
  /\ r \in DOMAIN runs
  /\ runs[r].pc = "mark"
  /\ logsCollection' =
       [k \in DOMAIN logsCollection |->
          IF k \in LogIds(runs[r])
          THEN [logsCollection[k] EXCEPT !.synced = TRUE, !.syncedAt = now]
          ELSE logsCollection[k]]
  /\ marks' = marks \cup {<<r, k>> : k \in LogIds(runs[r])}
  /\ runs' = [runs EXCEPT ![r].pc = "done"]
  /\ UNCHANGED <<now, objects, bucketExists, bucketCreators>>
  /\ UNCHANGED <<rawQueue, aiQueue, nextMsg, nextEnriched, nextTag, rawHandlers,
                 aiHandlers, acked, nacked, insertFailed, sseClients,
                 sseClientId, broken, written, filterOf, faults>>
  /\ UNCHANGED shipVars
  /\ UNCHANGED extVars

\* the stage of batchProcessToS3 a pending call belongs to
FailStage(pc) ==
  CASE pc = "query" -> "query"
    [] pc \in {"head", "create"} -> "bucket"
    [] pc = "put" -> "upload"
    [] pc = "mark" -> "mark"

\* the pending store or S3 call of the run rejects: the catch logs and returns
StepFails(r) ==
  /\ r \in DOMAIN runs
  /\ runs[r].pc # "done"
  /\ runs' = [runs EXCEPT ![r].pc = "done", ![r].failedAt = FailStage(runs[r].pc)]
  /\ faults' = TRUE
  /\ UNCHANGED <<now, objects, bucketExists, marks, bucketCreators>>
  /\ UNCHANGED <<rawQueue, aiQueue, nextMsg, nextEnriched, nextTag, rawHandlers,
                 aiHandlers, acked, nacked, insertFailed, logsCollection,
                 sseClients, sseClientId, broken, written, filterOf>>
  /\ UNCHANGED shipVars
  /\ UNCHANGED extVars

\* --------------------------------------------------- the tail -f shipper

\* tailProcess.stdout 'data' with n complete lines: the callback splits the
\* chunk and suspends in parseLogLine(first line) at await getInstanceIdentifier
TailData(n) ==
  /\ tailAttempt # "main"
  /\ tailWritten + n <= TailMaxLines
  /\ tailWritten' = tailWritten + n
  /\ tailChunks' = tailChunks + 1
  /\ dataHandlers' = dataHandlers \cup
       {[chunk |-> tailChunks + 1,
         lines |-> [i \in 1..n |-> tailWritten + i]]}
  /\ UNCHANGED tailPublished
  /\ UNCHANGED <<aggVars, archVars, batchVars>>
  /\ UNCHANGED extVars

\* publishLogEntry: the entry is published when isConnected, and otherwise
\* the function returns false and the entry is gone
PublishLogEntry(pub, logEntry) ==
  IF isConnected THEN Append(pub, logEntry) ELSE pub

\* the metadata request of a callback settles: parseLogLine returns the entry,
\* publishLogEntry is called, and the loop goes to the next line of the chunk
FetchSettles(h) ==
  /\ h \in dataHandlers
  /\ tailPublished' = PublishLogEntry(tailPublished, Head(h.lines))
  /\ dataHandlers' =
       IF Len(h.lines) = 1
       THEN dataHandlers \ {h}
       ELSE (dataHandlers \ {h}) \cup {[h EXCEPT !.lines = Tail(h.lines)]}
  /\ UNCHANGED <<tailWritten, tailChunks>>
  /\ UNCHANGED <<aggVars, archVars, batchVars>>
  /\ UNCHANGED extVars

\* reconnectInterval = Math.min(reconnectInterval * 1.5, maxReconnectInterval)
NextInterval(i) ==
  IF (3 * i) \div 2 < MaxReconnectInterval THEN (3 * i) \div 2 ELSE MaxReconnectInterval

\* reconnectInterval once the caller of connectRabbitMQ has resumed: main
\* leaves it, the timer callback of scheduleReconnection multiplies it
IntervalAfterAttempt(caller, i) ==
  IF caller = "timer" THEN NextInterval(i) ELSE i

\* connectRabbitMQ resolves: isConnected, reconnectInterval reset to 5000,
\* and its caller resumes
ConnectRabbitMQOk ==
  /\ tailAttempt # "none"
  /\ isConnected' = TRUE
  /\ reconnectInterval' = IntervalAfterAttempt(tailAttempt, BaseInterval)
  /\ tailAttempt' = "none"
  /\ tailDelays' = <<>>
  /\ UNCHANGED tailTimers
  /\ UNCHANGED <<aggVars, archVars, shipVars, hbClock, requeues, writeFailed, runVars, aggConnVars, clsVars>>

\* connectRabbitMQ catches: scheduleReconnection arms a timer with the
\* current reconnectInterval, and the caller resumes
ConnectRabbitMQFails ==
  /\ tailAttempt # "none"
  /\ Len(tailDelays) < TailMaxFailures
  /\ isConnected' = FALSE
  /\ tailTimers' = tailTimers \cup {reconnectInterval}
  /\ tailDelays' = Append(tailDelays, reconnectInterval)
  /\ reconnectInterval' = IntervalAfterAttempt(tailAttempt, reconnectInterval)
  /\ tailAttempt' = "none"
  /\ UNCHANGED <<aggVars, archVars, shipVars, hbClock, requeues, writeFailed, runVars, aggConnVars, clsVars>>

\* the timer of scheduleReconnection fires: connectRabbitMQ is called when
\* not connected
ScheduledReconnection(d) ==
  /\ d \in tailTimers
  /\ tailTimers' = tailTimers \ {d}
  /\ tailAttempt' = IF isConnected THEN tailAttempt ELSE "timer"
  /\ UNCHANGED <<isConnected, reconnectInterval, tailDelays>>
  /\ UNCHANGED <<aggVars, archVars, shipVars, hbClock, requeues, writeFailed, runVars, aggConnVars, clsVars>>

\* the connection or the channel emits 'error' or 'close': isConnected = false
TailConnectionLost ==
  /\ isConnected
  /\ isConnected' = FALSE
  /\ UNCHANGED <<tailAttempt, tailTimers, reconnectInterval, tailDelays>>
  /\ UNCHANGED <<aggVars, archVars, shipVars, hbClock, requeues, writeFailed, runVars, aggConnVars, clsVars>>

\* ------------------------------------ the aggregator's broker connection

\* the part of the state scheduleRabbitMQReconnect works on
RetryState ==
  [rabbitmqRetryCount |-> rabbitmqRetryCount, aggTimers |-> aggTimers,
   aggExited |-> aggExited]

\* scheduleRabbitMQReconnect(): process.exit(1) once rabbitmqRetryCount has
\* reached MAX_RETRY_COUNT, otherwise count the call and arm one more timer
ScheduleRabbitMQReconnect(st) ==
  IF st.rabbitmqRetryCount >= MaxRetryCount
  THEN [st EXCEPT !.aggExited = TRUE]
  ELSE [st EXCEPT !.rabbitmqRetryCount = @ + 1, !.aggTimers = @ + 1]

\* rabbitmqConnection.on('error'): amqplib emits 'error' for a fatal failure
\* and 'close' after it
AggConnectionError ==
  /\ ~aggExited
  /\ aggOpen > 0
  /\ LET st == ScheduleRabbitMQReconnect(RetryState)
     IN /\ rabbitmqRetryCount' = st.rabbitmqRetryCount
        /\ aggTimers' = st.aggTimers
        /\ aggExited' = st.aggExited
  /\ aggOpen' = aggOpen - 1
  /\ aggErrored' = aggErrored + 1
  /\ UNCHANGED <<aggConnects, aggAttempts, aggFailures>>
  /\ UNCHANGED <<aggVars, archVars, shipVars, hbClock, requeues, writeFailed, runVars, tailConnVars, clsVars>>

\* rabbitmqConnection.on('close'): after an 'error', or alone when the broker
\* closes the connection without a fatal error
AggConnectionClose(afterError) ==
  /\ ~aggExited
  /\ IF afterError
     THEN /\ aggErrored > 0
          /\ aggErrored' = aggErrored - 1
          /\ UNCHANGED aggOpen
     ELSE /\ aggOpen > 0
          /\ aggOpen' = aggOpen - 1
          /\ UNCHANGED aggErrored
  /\ LET st == ScheduleRabbitMQReconnect(RetryState)
     IN /\ rabbitmqRetryCount' = st.rabbitmqRetryCount
        /\ aggTimers' = st.aggTimers
        /\ aggExited' = st.aggExited
  /\ UNCHANGED <<aggConnects, aggAttempts, aggFailures>>
  /\ UNCHANGED <<aggVars, archVars, shipVars, hbClock, requeues, writeFailed, runVars, tailConnVars, clsVars>>

\* setTimeout(connectRabbitMQ, maxDelay) fires: connectRabbitMQ starts
AggTimerFires ==
  /\ ~aggExited
  /\ aggTimers > 0
  /\ aggTimers' = aggTimers - 1
  /\ aggAttempts' = aggAttempts + 1
  /\ UNCHANGED <<aggOpen, aggErrored, aggConnects, rabbitmqRetryCount,
                 aggExited, aggFailures>>
  /\ UNCHANGED <<aggVars, archVars, shipVars, hbClock, requeues, writeFailed, runVars, tailConnVars, clsVars>>

\* ---------------------------------------------------------------------------
\* The broker: exchanges, queues, bindings, and the routing of a topic exchange
\* ---------------------------------------------------------------------------

QueueNames == {"raw-logs", "ai-enriched"}

\* a broker with nothing declared on it and nothing published to it
EmptyBroker ==
  [exchanges |-> {}, queues |-> {}, bindings |-> {}, connected |-> {},
   sent |-> <<>>, delivered |-> [q \in QueueNames |-> <<>>], dropped |-> {}]

Binding(q, x, pattern) == [queue |-> q, exchange |-> x, pattern |-> pattern]

\* the declarations of connectRabbitMQ of the aggregator: two queues
ConnectRabbitMQDeclares(b) ==
  [b EXCEPT !.queues = @ \cup {"raw-logs", "ai-enriched"}]

\* the declarations of initializeRabbitMQ of class OpSentraBackend
InitializeRabbitMQDeclares(b) ==
  [b EXCEPT !.exchanges = @ \cup {"logs_exchange"},
            !.queues = @ \cup {"raw-logs", "ai-enriched"},
            !.bindings = @ \cup { Binding("raw-logs", "logs_exchange", <<<<"logs">>, <<"*">>>>),
                                  Binding("ai-enriched", "logs_exchange", <<<<"ai">>, <<"*">>>>) }]


\* connectRabbitMQ(), the try block: a new connection and channel, consumers
\* started on it, rabbitmqRetryCount = 0
AggConnectOk ==
  /\ ~aggExited
  /\ aggAttempts > 0
  /\ aggConnects < AggMaxConnects
  /\ aggAttempts' = aggAttempts - 1
  /\ aggOpen' = aggOpen + 1
  /\ aggConnects' = aggConnects + 1
  /\ rabbitmqRetryCount' = 0
  /\ rabbitmqConnection' = TRUE
  /\ aggFailures' = 0
  /\ UNCHANGED <<aggErrored, aggTimers, aggExited>>
  /\ UNCHANGED <<aggVars, archVars, shipVars, hbClock, requeues, writeFailed, sinkRead, builderIn, builderOut, lateVars, lifeVars,
                 tailConnVars, clsVars>>
  /\ broker' = ConnectRabbitMQDeclares(broker)

\* connectRabbitMQ(), the catch block: scheduleRabbitMQReconnect()
AggConnectFails ==
  /\ ~aggExited
  /\ aggAttempts > 0
  /\ aggAttempts' = aggAttempts - 1
  /\ aggFailures' = aggFailures + 1
  /\ LET st == ScheduleRabbitMQReconnect(RetryState)
     IN /\ rabbitmqRetryCount' = st.rabbitmqRetryCount
        /\ aggTimers' = st.aggTimers
        /\ aggExited' = st.aggExited
  /\ UNCHANGED <<aggOpen, aggErrored, aggConnects>>
  /\ UNCHANGED <<aggVars, archVars, shipVars, hbClock, requeues, writeFailed, runVars, tailConnVars, clsVars>>

\* ------------------------------------- the hub of class OpSentraBackend

\* this.recentLogs after push(processedLog) and the shift() past maxRecentLogs
PushRecent(logs, n) ==
  IF Len(logs) + 1 > MaxRecentLogs THEN Tail(Append(logs, n)) ELSE Append(logs, n)

\* what handleSSE writes to the response of a new client: one data event per
\* entry of this.recentLogs
WrittenAtRegistration(logs) == logs

\* handleSSE(req, res): the client joins this.sseClients and is sent
\* recentLogs.  (Its keep-alive timer writes ': heartbeat' comments only.)
HandleSSE ==
  /\ Len(clsWritten) < ClsMaxClients
  /\ clsClients' = clsClients \cup {Len(clsWritten) + 1}
  /\ clsWritten' = Append(clsWritten,
                          [registeredAfter |-> clsProcessed,
                           records |-> WrittenAtRegistration(recentLogs)])
  /\ UNCHANGED <<recentLogs, clsProcessed>>
  /\ UNCHANGED <<aggVars, archVars, shipVars, hbClock, requeues, writeFailed, runVars, tailConnVars, aggConnVars>>

\* req.on('close'): this.sseClients.delete(res)
ClsDisconnect(c) ==
  /\ c \in clsClients
  /\ clsClients' = clsClients \ {c}
  /\ UNCHANGED <<recentLogs, clsProcessed, clsWritten>>
  /\ UNCHANGED <<aggVars, archVars, shipVars, hbClock, requeues, writeFailed, runVars, tailConnVars, aggConnVars>>

\* processRawLog(logData) after insertOne resolved: push to recentLogs, then
\* broadcastToClients, where a client whose write throws is deleted
ProcessRawLog(failed) ==
  /\ clsProcessed < ClsMaxLogs
  /\ failed \subseteq clsClients
  /\ clsProcessed' = clsProcessed + 1
  /\ recentLogs' = PushRecent(recentLogs, clsProcessed + 1)
  /\ clsWritten' = [c \in DOMAIN clsWritten |->
                      IF c \in clsClients \ failed
                      THEN [clsWritten[c] EXCEPT !.records = Append(@, clsProcessed + 1)]
                      ELSE clsWritten[c]]
  /\ clsClients' = clsClients \ failed
  /\ UNCHANGED <<aggVars, archVars, shipVars, hbClock, requeues, writeFailed, runVars, tailConnVars, aggConnVars>>

\* ----------------------------------------------- the aggregator's startup

\* startServer(): await connectMongo() resolved, then initializeS3(), which
\* only constructs the client; connectRabbitMQ() is called
StartMongoOk ==
  /\ startPc = "connectMongo"
  /\ startPc' = "connectRabbitMQ"
  /\ started' = started \o <<"store", "objectStore">>
  /\ UNCHANGED <<exitCode, shutPc, rabbitmqConnection, sinkRead, buildVars>>
  /\ UNCHANGED <<aggVars, archVars, shipVars, requeues, writeFailed, otherVars>>

\* startServer(): connectMongo() rethrows; the catch calls process.exit(1)
StartMongoFails ==
  /\ startPc = "connectMongo"
  /\ startPc' = "exited"
  /\ exitCode' = "1"
  /\ UNCHANGED <<started, shutPc, rabbitmqConnection, sinkRead, buildVars>>
  /\ UNCHANGED <<aggVars, archVars, shipVars, requeues, writeFailed, otherVars>>

\* what startServer does after await connectRabbitMQ() in one turn of the
\* event loop: cron.schedule, setInterval(sendSSEHeartbeat), app.listen
AfterConnect(st) == st \o <<"scheduler", "heartbeat", "endpoint">>

\* startServer(): connectRabbitMQ() connected and started the consumers
StartBrokerOk ==
  /\ startPc = "connectRabbitMQ"
  /\ startPc' = "done"
  /\ aggOpen' = aggOpen + 1
  /\ rabbitmqConnection' = TRUE
  /\ rabbitmqRetryCount' = 0
  /\ started' = AfterConnect(Append(started, "broker"))
  /\ UNCHANGED <<aggErrored, aggConnects, aggAttempts, aggTimers, aggExited, aggFailures>>
  /\ UNCHANGED <<exitCode, shutPc, sinkRead, builderIn, builderOut, lateVars>>
  /\ broker' = ConnectRabbitMQDeclares(broker)
  /\ UNCHANGED <<aggVars, archVars, shipVars, hbClock, requeues, writeFailed,
                 tailConnVars, clsVars>>

\* startServer(): connectRabbitMQ() failed; its catch logs, calls
\* scheduleRabbitMQReconnect() and returns, so startServer goes on
StartBrokerFails ==
  /\ startPc = "connectRabbitMQ"
  /\ startPc' = "done"
  /\ aggFailures' = aggFailures + 1
  /\ LET st == ScheduleRabbitMQReconnect(RetryState)
     IN /\ rabbitmqRetryCount' = st.rabbitmqRetryCount
        /\ aggTimers' = st.aggTimers
        /\ aggExited' = st.aggExited
  /\ started' = AfterConnect(started)
  /\ UNCHANGED <<aggOpen, aggErrored, aggConnects, aggAttempts>>
  /\ UNCHANGED <<exitCode, shutPc, rabbitmqConnection, sinkRead, buildVars>>
  /\ UNCHANGED <<aggVars, archVars, shipVars, hbClock, requeues, writeFailed,
                 tailConnVars, clsVars>>

\* app.get('/health'): services.rabbitmq of the response
HealthRabbitmq == IF rabbitmqConnection THEN "connected" ELSE "disconnected"

\* ------------------------------------- the aggregator's faults and shutdown

\* rabbitmqChannel can no longer send: its connection is gone, or
\* rabbitmqChannel.close() was called by the SIGTERM handler
ChannelClosed == aggOpen = 0 \/ shutPc # "none"

\* mongoClient.close() was called by the SIGTERM handler
MongoClosed == shutPc = "mongo"

\* the raw-logs callback after its await when the channel is closed: when
\* the insert resolved the record is stored and broadcast, then ack throws;
\* in the catch nack throws too, the promise of the callback rejects and the
\* 'unhandledRejection' handler calls process.exit(1)
SettleThrows(h, inserted) ==
  /\ h \in rawHandlers
  /\ ChannelClosed
  /\ MongoClosed => ~inserted
  /\ rawHandlers' = rawHandlers \ {h}
  /\ IF inserted
     THEN /\ logsCollection' = InsertToMongo(logsCollection, h.msg, h.tag)
          /\ sseClients' = ClientsAfterBroadcast(h.msg)
          /\ written' = WrittenAfterBroadcast("log", h.msg, h.tag)
          /\ writeFailed' = writeFailed \cup FailedWrites(h.msg)
          /\ UNCHANGED <<insertFailed, faults>>
     ELSE /\ insertFailed' = insertFailed \cup {h.tag}
          /\ faults' = TRUE
          /\ UNCHANGED <<logsCollection, sseClients, written, writeFailed>>
  /\ exitCode' = "1"
  /\ UNCHANGED <<rawQueue, aiQueue, nextMsg, nextEnriched, nextTag, aiHandlers,
                 acked, nacked, sseClientId, broken, filterOf>>
  /\ UNCHANGED <<startPc, started, shutPc, sinkRead, buildVars, rabbitmqConnection>>
  /\ UNCHANGED <<archVars, shipVars, requeues, otherVars>>

\* the broker cancels the consumer: the callback is called with msg = null;
\* msg.content throws, nack(null) throws in the catch, and the
\* 'unhandledRejection' handler calls process.exit(1)
ConsumerCancelled ==
  /\ aggOpen > 0
  /\ exitCode' = "1"
  /\ UNCHANGED <<startPc, started, shutPc, sinkRead, buildVars, rabbitmqConnection>>
  /\ UNCHANGED <<aggVars, archVars, shipVars, requeues, writeFailed, otherVars>>

\* process.on('SIGTERM'): rabbitmqChannel.close() is called
Sigterm ==
  /\ shutPc = "none"
  /\ shutPc' = "channel"
  /\ UNCHANGED <<startPc, started, exitCode, sinkRead, buildVars, rabbitmqConnection>>
  /\ UNCHANGED <<aggVars, archVars, shipVars, requeues, writeFailed, otherVars>>

\* rabbitmqChannel.close() resolved: rabbitmqConnection.close() is called
ShutdownChannelClosed ==
  /\ shutPc = "channel"
  /\ aggOpen > 0
  /\ shutPc' = "connection"
  /\ UNCHANGED <<startPc, started, exitCode, sinkRead, buildVars, rabbitmqConnection>>
  /\ UNCHANGED <<aggVars, archVars, shipVars, requeues, writeFailed, otherVars>>

\* rabbitmqChannel.close() rejected, the channel having gone with its
\* connection: the catch of the handler calls process.exit(1)
ShutdownCloseFails ==
  /\ shutPc = "channel"
  /\ aggOpen = 0
  /\ exitCode' = "1"
  /\ UNCHANGED <<startPc, started, shutPc, sinkRead, buildVars, rabbitmqConnection>>
  /\ UNCHANGED <<aggVars, archVars, shipVars, requeues, writeFailed, otherVars>>

\* rabbitmqConnection.close() resolved, the connection emitting 'close' (and
\* so scheduleRabbitMQReconnect running): mongoClient.close() is called
ShutdownConnectionClosed ==
  /\ shutPc = "connection"
  /\ shutPc' = "mongo"
  /\ aggOpen' = 0
  /\ LET st == ScheduleRabbitMQReconnect(RetryState)
     IN /\ rabbitmqRetryCount' = st.rabbitmqRetryCount
        /\ aggTimers' = st.aggTimers
        /\ aggExited' = st.aggExited
  /\ UNCHANGED <<aggErrored, aggConnects, aggAttempts, aggFailures>>
  /\ UNCHANGED <<startPc, started, exitCode, sinkRead, buildVars, rabbitmqConnection>>
  /\ UNCHANGED <<aggVars, archVars, shipVars, hbClock, requeues, writeFailed,
                 tailConnVars, clsVars>>

\* mongoClient.close() resolved: process.exit(0)
ShutdownMongoClosed ==
  /\ shutPc = "mongo"
  /\ exitCode' = "0"
  /\ UNCHANGED <<startPc, started, shutPc, sinkRead, buildVars, rabbitmqConnection>>
  /\ UNCHANGED <<aggVars, archVars, shipVars, requeues, writeFailed, otherVars>>

\* --------------------------------------------------- the batching shipper

\* glob(pattern): every pattern considered matches the one file
Glob(pattern) == <<"/var/log/app.log">>

\* logSources after the loop over config.logPaths: one source per match
RECURSIVE LogSourcesOf(_)
LogSourcesOf(logPaths) ==
  IF logPaths = <<>> THEN <<>>
  ELSE Glob(Head(logPaths)) \o LogSourcesOf(Tail(logPaths))

\* discoverAndMonitorLogs: startMonitoring creates a Tail for every source,
\* reading from the end of the file; activeTails keeps one Tail per path
DiscoverAndMonitorLogs(logPaths) ==
  /\ logSources = <<>>
  /\ logSources' = LogSourcesOf(logPaths)
  /\ tailPos' = [t \in DOMAIN logSources' |-> fileLen[logSources'[t]]]
  /\ UNCHANGED <<fileLen, logBuffer, batchTimer, microtasks, published,
                 channelOpen, everClosed>>
  /\ UNCHANGED <<aggVars, archVars, tailVars>>
  /\ UNCHANGED extVars

\* environment: a line is appended to a monitored file
WriteLine(p) ==
  /\ logSources # <<>>
  /\ fileLen[p] < BatchMaxLines
  /\ fileLen' = [fileLen EXCEPT ![p] = @ + 1]
  /\ UNCHANGED <<logSources, tailPos, logBuffer, batchTimer, microtasks,
                 published, channelOpen, everClosed>>
  /\ UNCHANGED <<aggVars, archVars, tailVars>>
  /\ UNCHANGED extVars

\* the fields of the shipper a synchronous run of callbacks works on
Shipper ==
  [logBuffer |-> logBuffer, batchTimer |-> batchTimer,
   microtasks |-> microtasks, published |-> published]

\* flushBuffer up to its first await: the buffer is taken, the timer cleared,
\* and publishLog of the first entry has published it, or thrown on a closed channel
FlushBuffer(st) ==
  IF st.logBuffer = <<>> THEN st
  ELSE [logBuffer |-> <<>>,
        batchTimer |-> FALSE,
        microtasks |-> Append(st.microtasks,
                         [logsToSend |-> st.logBuffer,
                          sent |-> IF channelOpen THEN 1 ELSE 0,
                          threw |-> ~channelOpen]),
        published |-> IF channelOpen
                      THEN Append(st.published, Head(st.logBuffer))
                      ELSE st.published]

\* addToBuffer
AddToBuffer(st, logEntry) ==
  LET pushed == [st EXCEPT !.logBuffer = Append(@, logEntry)] IN
  IF Len(pushed.logBuffer) >= BatchSize
  THEN FlushBuffer(pushed)
  ELSE [pushed EXCEPT !.batchTimer = TRUE]

\* the 'line' events of one read, each through processLogLine
RECURSIVE ProcessLogLines(_, _)
ProcessLogLines(st, entries) ==
  IF entries = <<>> THEN st
  ELSE ProcessLogLines(AddToBuffer(st, Head(entries)), Tail(entries))

\* createLogEntry, as far as the identity of the line goes
CreateLogEntry(line, source) == [path |-> source, line |-> line]

\* a Tail reads what was appended since its last read and emits the lines
TailReads(t) ==
  /\ t \in DOMAIN logSources
  /\ microtasks = <<>>
  /\ tailPos[t] < fileLen[logSources[t]]
  /\ LET n == fileLen[logSources[t]] - tailPos[t]
         entries == [i \in 1..n |-> CreateLogEntry(tailPos[t] + i, logSources[t])]
         st == ProcessLogLines(Shipper, entries)
     IN /\ logBuffer' = st.logBuffer
        /\ batchTimer' = st.batchTimer
        /\ microtasks' = st.microtasks
        /\ published' = st.published
  /\ tailPos' = [tailPos EXCEPT ![t] = fileLen[logSources[t]]]
  /\ UNCHANGED <<logSources, fileLen, channelOpen, everClosed>>
  /\ UNCHANGED <<aggVars, archVars, tailVars>>
  /\ UNCHANGED extVars

\* the batchTimeout timer fires: flushBuffer
BatchTimerFires ==
  /\ batchTimer
  /\ microtasks = <<>>
  /\ LET st == FlushBuffer(Shipper)
     IN /\ logBuffer' = st.logBuffer
        /\ batchTimer' = st.batchTimer
        /\ microtasks' = st.microtasks
        /\ published' = st.published
  /\ UNCHANGED <<logSources, fileLen, tailPos, channelOpen, everClosed>>
  /\ UNCHANGED <<aggVars, archVars, tailVars>>
  /\ UNCHANGED extVars

\* the suspended flushBuffer next in the microtask queue resumes: the catch
\* after a throw (unshift of logsToSend), the end of the loop, or publishLog
\* of the next entry
RunMicrotask ==
  /\ microtasks # <<>>
  /\ LET f == Head(microtasks) IN
     IF f.threw
     THEN /\ logBuffer' = f.logsToSend \o logBuffer
          /\ microtasks' = Tail(microtasks)
          /\ UNCHANGED published
     ELSE IF f.sent = Len(f.logsToSend)
     THEN /\ microtasks' = Tail(microtasks)
          /\ UNCHANGED <<logBuffer, published>>
     ELSE IF channelOpen
     THEN /\ published' = Append(published, f.logsToSend[f.sent + 1])
          /\ microtasks' = Append(Tail(microtasks), [f EXCEPT !.sent = @ + 1])
          /\ UNCHANGED logBuffer
     ELSE /\ microtasks' = Append(Tail(microtasks), [f EXCEPT !.threw = TRUE])
          /\ UNCHANGED <<logBuffer, published>>
  /\ UNCHANGED <<logSources, fileLen, tailPos, batchTimer, channelOpen, everClosed>>
  /\ UNCHANGED <<aggVars, archVars, tailVars>>
  /\ UNCHANGED extVars

\* the broker connection closes: publish on the channel throws from now on
\* (handleRabbitMQClose schedules the reconnection)
ConnectionCloses ==
  /\ channelOpen
  /\ microtasks = <<>>
  /\ channelOpen' = FALSE
  /\ everClosed' = TRUE
  /\ UNCHANGED <<logSources, fileLen, tailPos, logBuffer, batchTimer,
                 microtasks, published>>
  /\ UNCHANGED <<aggVars, archVars, tailVars>>
  /\ UNCHANGED extVars

\* scheduleReconnect's timer: initializeRabbitMQ succeeds with a new channel
Reconnected ==
  /\ ~channelOpen
  /\ microtasks = <<>>
  /\ channelOpen' = TRUE
  /\ UNCHANGED <<logSources, fileLen, tailPos, logBuffer, batchTimer,
                 microtasks, published, everClosed>>
  /\ UNCHANGED <<aggVars, archVars, tailVars>>
  /\ UNCHANGED extVars

\* ------------------------------------------------------------ specifications

\* the module state of the three programs when they are loaded, but for the
\* aggregator's startup
Loaded ==
  /\ rawQueue = <<>>
  /\ aiQueue = <<>>
  /\ nextMsg = 1
  /\ nextEnriched = 0
  /\ nextTag = 1
  /\ rawHandlers = {}
  /\ aiHandlers = {}
  /\ acked = {}
  /\ nacked = {}
  /\ insertFailed = {}
  /\ logsCollection = <<>>
  /\ sseClients = <<>>
  /\ sseClientId = 0
  /\ broken = {}
  /\ written = <<>>
  /\ filterOf = <<>>
  /\ faults = FALSE
  /\ now = 0
  /\ runs = <<>>
  /\ objects = <<>>
  /\ bucketExists = FALSE
  /\ marks = {}
  /\ bucketCreators = {}
  /\ tailWritten = 0
  /\ dataHandlers = {}
  /\ tailChunks = 0
  /\ tailPublished = <<>>
  /\ logSources = <<>>
  /\ fileLen = [p \in Paths |-> 0]
  /\ tailPos = <<>>
  /\ logBuffer = <<>>
  /\ batchTimer = FALSE
  /\ microtasks = <<>>
  /\ published = <<>>
  /\ channelOpen = TRUE
  /\ everClosed = FALSE
  /\ hbClock = 0
  /\ requeues = <<>>
  /\ writeFailed = {}
  /\ sinkRead = <<>>
  /\ isConnected = FALSE
  /\ tailAttempt = "main"
  /\ tailTimers = {}
  /\ reconnectInterval = BaseInterval
  /\ tailDelays = <<>>
  /\ aggErrored = 0
  /\ aggConnects = 0
  /\ aggAttempts = 0
  /\ aggTimers = 0
  /\ rabbitmqRetryCount = 0
  /\ aggExited = FALSE
  /\ aggFailures = 0
  /\ recentLogs = <<>>
  /\ clsProcessed = 0
  /\ clsClients = {}
  /\ clsWritten = <<>>

\* no request is with the fetch endpoint
NoRequest ==
  /\ apiRequest = [limit |-> [kind |-> "absent", value |-> 0], matching |-> 0]
  /\ apiResponse = [sent |-> TRUE, status |-> 200, logs |-> {}, count |-> 0]

\* The files the tail -f shipper is configured to tail.
LogPaths == {"/var/log/syslog", "/var/log/auth.log"}

\* the tail -f shipper before main has started any tail process
NoTailers ==
  /\ tailProcess = [p \in LogPaths |-> 0]
  /\ exitTimers = [p \in LogPaths |-> 0]
  /\ errorTimers = [p \in LogPaths |-> 0]
  /\ missing = {}
  /\ isShuttingDown = FALSE
  /\ shutdownPcs = <<>>
  /\ tailChannel = "open"
  /\ tailConn = "open"
  /\ shipperExit = "running"
  /\ startedInShutdown = FALSE

\* a tail process that has written nothing
NoOutput ==
  /\ stdoutBytes = <<>>
  /\ stdoutRead = 0
  /\ lineBuffer = <<>>
  /\ emittedLines = <<>>

\* nothing is under way in the parts modelled on their own
Idle ==
  /\ NoRequest
  /\ NoTailers
  /\ NoOutput

\* no shipper has a line to process
NoLine ==
  /\ builderIn = [shipper |-> "none"]
  /\ builderOut = [done |-> TRUE, threw |-> FALSE, entries |-> <<>>]

\* the aggregator process at its first line: startServer() is called
ProcessStart ==
  /\ Loaded
  /\ aggOpen = 0
  /\ rabbitmqConnection = FALSE
  /\ startPc = "connectMongo"
  /\ started = <<>>
  /\ exitCode = "running"
  /\ shutPc = "none"
  /\ NoLine
  /\ broker = EmptyBroker
  /\ Idle

\* the aggregator after startServer went through with every step succeeding
Serving ==
  /\ Loaded
  /\ aggOpen = 1
  /\ rabbitmqConnection = TRUE
  /\ startPc = "done"
  /\ started = <<"store", "objectStore", "broker", "scheduler", "heartbeat", "endpoint">>
  /\ exitCode = "running"
  /\ shutPc = "none"

Init ==
  /\ Serving
  /\ NoLine
  /\ broker = ConnectRabbitMQDeclares(EmptyBroker)
  /\ Idle

ConsumerNext ==
  \/ \E j \in BOOLEAN : PublishRaw("nginx", j, MaxMsgs)
  \/ DeliverRaw(MaxDeliveries)
  \/ \E h \in rawHandlers : InsertOk(h)
  \/ \E h \in rawHandlers : InsertFails(h)
  \/ \E k \in 1..MaxMsgs : PublishEnriched(k, Undefined)
  \/ DeliverEnriched(MaxDeliveries)
  \/ \E h \in aiHandlers : UpdateOk(h)
  \/ \E h \in aiHandlers : UpdateFails(h)

\* the broker consumers and the store writer of the aggregator
ConsumerSpec == Init /\ [][ConsumerNext]_vars

PoisonNext ==
  \/ \E j \in BOOLEAN : PublishRaw("nginx", j, PoisonMaxMsgs)
  \/ DeliverRaw(PoisonMaxDeliveries)
  \/ \E h \in rawHandlers : InsertOk(h)
  \/ \E h \in rawHandlers : InsertFails(h)

\* the raw-logs consumer, with payloads that cannot be parsed and inserts
\* that fail
PoisonSpec == Init /\ [][PoisonNext]_vars

HubNext ==
  \/ \E s \in Services : PublishRaw(s, TRUE, HubMaxMsgs)
  \/ DeliverRaw(HubMaxDeliveries)
  \/ \E h \in rawHandlers : InsertOk(h)
  \/ \E h \in rawHandlers : InsertFails(h)
  \/ \E f \in Services \cup {NoFilter} : Register(f, MaxClients)
  \/ \E c \in DOMAIN sseClients : Disconnect(c)
  \/ \E c \in DOMAIN sseClients : SinkBreaks(c)

\* the raw-logs consumer and the subscriber hub of the aggregator
HubSpec == Init /\ [][HubNext]_vars

ArchNext ==
  \/ PublishRaw("nginx", TRUE, ArchMaxMsgs)
  \/ DeliverRaw(ArchMaxDeliveries)
  \/ \E h \in rawHandlers : InsertOk(h)
  \/ AdvanceClock(MaxTime)
  \/ CronTick(MaxTime)
  \/ \E r \in DOMAIN runs : \E S \in SUBSET DOMAIN logsCollection : QueryDone(r, S)
  \/ \E r \in DOMAIN runs : HeadBucket(r)
  \/ \E r \in DOMAIN runs : CreateBucket(r)
  \/ \E r \in DOMAIN runs : PutObject(r)
  \/ \E r \in DOMAIN runs : MarkSynced(r)
  \/ \E r \in DOMAIN runs : StepFails(r)

\* the raw-logs consumer, the store and the archival cron, whose store and
\* object-store calls may reject
ArchSpec == Init /\ [][ArchNext]_vars

SyncNext ==
  \/ PublishRaw("nginx", TRUE, SyncMaxMsgs)
  \/ DeliverRaw(SyncMaxDeliveries)
  \/ \E h \in rawHandlers : InsertOk(h)
  \/ \E h \in rawHandlers : InsertFails(h)
  \/ \E k \in 1..SyncMaxMsgs : PublishEnriched(k, Undefined)
  \/ DeliverEnriched(SyncMaxDeliveries)
  \/ \E h \in aiHandlers : UpdateOk(h)
  \/ \E h \in aiHandlers : UpdateFails(h)
  \/ AdvanceClock(SyncMaxTime)
  \/ CronTick(SyncMaxTime)
  \/ \E r \in DOMAIN runs : \E S \in SUBSET DOMAIN logsCollection : QueryDone(r, S)
  \/ \E r \in DOMAIN runs : HeadBucket(r)
  \/ \E r \in DOMAIN runs : CreateBucket(r)
  \/ \E r \in DOMAIN runs : PutObject(r)
  \/ \E r \in DOMAIN runs : MarkSynced(r)

\* every writer of the store: both consumers, with redeliveries, and the
\* archival cron
SyncSpec == Init /\ [][SyncNext]_vars

CoverageNext ==
  \/ PublishRaw("nginx", TRUE, CoverageMaxMsgs)
  \/ DeliverRaw(CoverageMaxMsgs)
  \/ \E h \in rawHandlers : InsertOk(h)
  \/ InFlight = {} /\ AdvanceClock(CoverageMaxTime)
  \/ InFlight = {} /\ CronTick(CoverageMaxTime)
  \/ \E r \in DOMAIN runs : \E S \in SUBSET DOMAIN logsCollection : QueryDone(r, S)
  \/ \E r \in DOMAIN runs : HeadBucket(r)
  \/ \E r \in DOMAIN runs : CreateBucket(r)
  \/ \E r \in DOMAIN runs : PutObject(r)
  \/ \E r \in DOMAIN runs : MarkSynced(r)

\* the raw-logs consumer, the store and the archival cron over three cron
\* periods in a healthy deployment: no call rejects, and every run returns
\* within the time unit of its tick
CoverageSpec == Init /\ [][CoverageNext]_vars

TailNext ==
  \/ \E n \in 1..MaxChunkLines : TailData(n)
  \/ \E h \in dataHandlers : FetchSettles(h)
  \/ ConnectRabbitMQOk
  \/ ConnectRabbitMQFails
  \/ \E d \in tailTimers : ScheduledReconnection(d)
  \/ TailConnectionLost

\* the tail -f shipper on one file, with its broker connection
TailSpec == Init /\ [][TailNext]_vars

\* the same, where a timer that is armed fires and a connection attempt settles
TailLiveSpec ==
  /\ TailSpec
  /\ WF_vars(\E d \in tailTimers : ScheduledReconnection(d))
  /\ WF_vars(ConnectRabbitMQOk \/ ConnectRabbitMQFails)

AggConnNext ==
  \/ AggConnectionError
  \/ \E afterError \in BOOLEAN : AggConnectionClose(afterError)
  \/ AggTimerFires
  \/ AggConnectOk
  \/ AggConnectFails

\* the aggregator's connection to the broker, from its first connection on
AggConnSpec == Init /\ [][AggConnNext]_vars

StartupNext ==
  \/ StartMongoOk
  \/ StartMongoFails
  \/ StartBrokerOk
  \/ StartBrokerFails
  \/ AggConnectionError
  \/ \E afterError \in BOOLEAN : AggConnectionClose(afterError)
  \/ AggTimerFires
  \/ AggConnectOk
  \/ AggConnectFails

\* the aggregator from the call of startServer on
StartupSpec == ProcessStart /\ [][StartupNext]_vars

\* the process has not exited
Running == exitCode = "running"

\* the channel of a running aggregator can send
CanSend == Running /\ ~ChannelClosed

ShutdownNext ==
  \/ \E j \in BOOLEAN : PublishRaw("nginx", j, ShutMaxMsgs)
  \/ CanSend /\ DeliverRaw(ShutMaxDeliveries)
  \/ CanSend /\ \E h \in rawHandlers : InsertOk(h)
  \/ CanSend /\ \E h \in rawHandlers : InsertFails(h)
  \/ Running /\ \E h \in rawHandlers : \E inserted \in BOOLEAN : SettleThrows(h, inserted)
  \/ Running /\ Register(NoFilter, ShutMaxClients)
  \/ Running /\ \E afterError \in BOOLEAN : AggConnectionClose(afterError)
  \/ Running /\ Sigterm
  \/ Running /\ ShutdownChannelClosed
  \/ Running /\ ShutdownCloseFails
  \/ Running /\ ShutdownConnectionClosed
  \/ Running /\ ShutdownMongoClosed

\* the aggregator with messages in flight when SIGTERM arrives
ShutdownSpec == Init /\ [][ShutdownNext]_vars

FaultNext ==
  \/ \E j \in BOOLEAN : PublishRaw("nginx", j, FaultMaxMsgs)
  \/ CanSend /\ DeliverRaw(FaultMaxDeliveries)
  \/ CanSend /\ \E h \in rawHandlers : InsertOk(h)
  \/ CanSend /\ \E h \in rawHandlers : InsertFails(h)
  \/ Running /\ \E h \in rawHandlers : \E inserted \in BOOLEAN : SettleThrows(h, inserted)
  \/ Running /\ AggConnectionError
  \/ Running /\ \E afterError \in BOOLEAN : AggConnectionClose(afterError)
  \/ Running /\ AggTimerFires
  \/ Running /\ AggConnectOk
  \/ Running /\ AggConnectFails
  \/ Running /\ ConsumerCancelled

\* the running aggregator under broker faults
FaultSpec == Init /\ [][FaultNext]_vars

ClassHubNext ==
  \/ HandleSSE
  \/ \E c \in clsClients : ClsDisconnect(c)
  \/ \E failed \in SUBSET clsClients : ProcessRawLog(failed)

\* the subscription hub of class OpSentraBackend
ClassHubSpec == Init /\ [][ClassHubNext]_vars

HeartbeatNext ==
  \/ PublishRaw("nginx", TRUE, HbMaxMsgs)
  \/ DeliverRaw(HbMaxDeliveries)
  \/ \E h \in rawHandlers : InsertOk(h)
  \/ \E f \in Services \cup {NoFilter} : Register(f, HbMaxClients)
  \/ \E c \in DOMAIN sseClients : Disconnect(c)
  \/ \E c \in DOMAIN sseClients : SinkBreaks(c)
  \/ HeartbeatTick(HbMaxTime)

\* the subscriber hub of the aggregator with its heartbeat timer
HeartbeatSpec == Init /\ [][HeartbeatNext]_vars

FanoutNext ==
  \/ PublishRaw("nginx", TRUE, FanMaxMsgs)
  \/ DeliverRaw(FanMaxDeliveries)
  \/ \E h \in rawHandlers : InsertOk(h)
  \/ \E f \in Services \cup {NoFilter} : Register(f, FanMaxClients)
  \/ \E c \in DOMAIN sseClients : SinkBreaks(c)
  \/ HeartbeatTick(FanMaxTime)

\* fan-out and heartbeat to several subscribers whose sinks may fail
FanoutSpec == Init /\ [][FanoutNext]_vars

BacklogNext ==
  \/ PublishRaw("nginx", TRUE, BacklogMaxMsgs)
  \/ DeliverRaw(BacklogMaxMsgs)
  \/ \E h \in rawHandlers : InsertOk(h)
  \/ \E f \in {"nginx", NoFilter} : Register(f, BacklogMaxClients)
  \/ \E c \in DOMAIN sseClients : Disconnect(c)
  \/ \E c \in DOMAIN sseClients : ClientReads(c)

\* the subscriber hub with readers that take events at their own pace
BacklogSpec == Init /\ [][BacklogNext]_vars

BatchNext ==
  \/ \E logPaths \in LogPathsSettings : DiscoverAndMonitorLogs(logPaths)
  \/ \E p \in Paths : WriteLine(p)
  \/ \E t \in DOMAIN logSources : TailReads(t)
  \/ BatchTimerFires
  \/ RunMicrotask
  \/ ConnectionCloses
  \/ Reconnected

\* the batching shipper
BatchSpec == Init /\ [][BatchNext]_vars

\* ------------------------------------------------------------------ claims

RawAcked == {a[2] : a \in {b \in acked : b[1] = "raw-logs"}}
RawNacked == {a[2] : a \in {b \in nacked : b[1] = "raw-logs"}}
InsertedTags == {logsCollection[k].tag : k \in DOMAIN logsCollection}

LogEvents(c) == {i \in 1..Len(written[c]) : written[c][i].event = "log"}

\* every record event written to a subscriber with filter S has service S
OnlyMatchingWritten ==
  \A c \in DOMAIN written : \A i \in LogEvents(c) :
     filterOf[c] # NoFilter => written[c][i].service = filterOf[c]

\* a step that dispatches a record (the store grows by it) writes it to every
\* registered subscriber with a working sink whose filter is absent or equals
\* the record's service, and writes nothing to the others
EveryMatchingWritten ==
  Len(logsCollection') = Len(logsCollection) + 1 =>
    LET rec == logsCollection'[Len(logsCollection')]
        ev == [event |-> "log", id |-> rec.msg, service |-> rec.service,
               tag |-> rec.tag, at |-> hbClock]
    IN \A c \in DOMAIN sseClients :
         c \notin broken =>
           written'[c] = IF filterOf[c] = NoFilter \/ filterOf[c] = rec.service
                         THEN Append(written[c], ev)
                         ELSE written[c]

\* C7: subscriber filter correctness: a subscriber with filter service=S is
\* written only records of service S and every dispatched record of service S
\* while it is registered; an unfiltered subscriber is written every record.
FilterCorrectness == []OnlyMatchingWritten /\ [][EveryMatchingWritten]_vars

\* a subscriber with a filter, still registered, was written the first stored
\* record (its service) and passed over for the second (another service)
FilterCorrectnessWitness ==
  \E c \in DOMAIN sseClients :
    /\ filterOf[c] \in Services
    /\ Len(logsCollection) = 2
    /\ logsCollection[1].service = filterOf[c]
    /\ logsCollection[2].service # filterOf[c]
    /\ \E i \in LogEvents(c) : written[c][i].tag = logsCollection[1].tag
    /\ Cardinality(LogEvents(c)) = 1

\* C8: per-subscriber FIFO in broker delivery order: the record events written
\* to a subscriber are in the order of their delivery tags.
BrokerOrderFifo ==
  \A c \in DOMAIN written : \A i, j \in LogEvents(c) :
     i < j => written[c][i].tag < written[c][j].tag

\* ---- archival

ObjectsOf(r) == {i \in DOMAIN objects : objects[i].run = r}
MarkedBy(r) == {k \in DOMAIN logsCollection : <<r, k>> \in marks}
FailedBeforeMark(r) ==
  runs[r].pc = "done" /\ runs[r].failedAt \in {"query", "bucket", "upload"}

\* a document is synced only by a run that had uploaded an object holding it
MarkedOnlyIfUploaded ==
  /\ \A k \in DOMAIN logsCollection :
       logsCollection[k].synced => \E r \in DOMAIN runs : k \in MarkedBy(r)
  /\ \A r \in DOMAIN runs : \A k \in MarkedBy(r) :
       \E i \in ObjectsOf(r) : k \in objects[i].ids

\* a run whose query, bucket step or upload failed has marked no document
FailedRunMarksNothing ==
  \A r \in DOMAIN runs : FailedBeforeMark(r) => MarkedBy(r) = {}

\* the since of the run the next cron tick starts
NextSince(run) == NewRun(run.since + Window + Interval).since

\* the documents a failed run had selected, when still unsynced, are selected
\* by the query of the next tick
FailedRunRecordsRemainCandidates ==
  \A r \in DOMAIN runs : FailedBeforeMark(r) =>
    \A k \in runs[r].found :
       ~logsCollection[k].synced => k \in Unsynced(NextSince(runs[r]))

\* C3: no partial mark: documents are marked synced only after the upload of
\* the same run, and only the documents of the uploaded object; a run whose
\* query, bucket step or upload failed marks nothing, and the documents it had
\* selected remain candidates for a later tick.
NoPartialMark ==
  /\ MarkedOnlyIfUploaded
  /\ FailedRunMarksNothing
  /\ FailedRunRecordsRemainCandidates

\* C4: at most one archival run is in flight at any time (a tick that fires
\* during a run is skipped), and no document is uploaded by two runs.
AtMostOneArchival ==
  /\ Cardinality(InFlight) <= 1
  /\ \A i, j \in DOMAIN objects :
       objects[i].run # objects[j].run => objects[i].ids \cap objects[j].ids = {}

\* C5: archival coverage: with no call ever rejecting, every document whose
\* timestamp lies strictly inside a cron period and is older than twice the
\* archive interval is synced.
ArchivalCoverage ==
  \A k \in DOMAIN logsCollection :
    (/\ logsCollection[k].timestamp % Interval # 0
     /\ logsCollection[k].timestamp < now - 2 * Interval)
      => logsCollection[k].synced

\* C6: a run that found N > 0 documents (N within the batch limit) and
\* completed has uploaded exactly one object, holding exactly those documents
\* with log-count N, and has marked exactly those documents, which are synced;
\* a run that found no document uploads no object, creates no bucket and
\* marks nothing.
TickUploadsOneObject ==
  \A r \in DOMAIN runs :
    /\ Cardinality(runs[r].found) <= BatchLimit
    /\ Cardinality(ObjectsOf(r)) <= 1
    /\ (runs[r].pc = "done" /\ runs[r].failedAt = "none" /\ runs[r].found # {}) =>
          /\ \E i \in ObjectsOf(r) :
               /\ objects[i].ids = runs[r].found
               /\ objects[i].logCount = Cardinality(runs[r].found)
          /\ MarkedBy(r) = runs[r].found
          /\ \A k \in runs[r].found : logsCollection[k].synced
    /\ (runs[r].pc # "query" /\ runs[r].found = {}) =>
          /\ runs[r].pc = "done"
          /\ ObjectsOf(r) = {}
          /\ r \notin bucketCreators
          /\ MarkedBy(r) = {}

\* one run found two documents, uploaded them and marked them; another run
\* found none and returned
TickUploadsOneObjectWitness ==
  /\ \E r \in DOMAIN runs :
       /\ runs[r].pc = "done" /\ runs[r].failedAt = "none"
       /\ Cardinality(runs[r].found) = 2
  /\ \E r \in DOMAIN runs :
       /\ runs[r].pc = "done" /\ runs[r].failedAt = "none"
       /\ runs[r].found = {}

\* ---- shippers

\* the tail -f shipper publishes the lines of the file in file order
TailFifo ==
  \A i, j \in DOMAIN tailPublished :
     i < j => tailPublished[i] < tailPublished[j]

\* the batching shipper with one Tail on the file publishes its lines in file order
BatchFifo ==
  Len(logSources) = 1 =>
    \A i, j \in DOMAIN published :
       i < j => published[i].line < published[j].line

\* C9: per-source FIFO on the shipper: of two lines of the same file, the
\* record of the earlier line is published before the record of the later one.
PerSourceFifo == TailFifo /\ BatchFifo

PublishedOf(p, n) ==
  {i \in DOMAIN published : published[i] = CreateLogEntry(n, p)}

\* nothing is pending in the batching shipper: every Tail has read its file to
\* the end, the buffer is empty and no flush is suspended
BatchQuiescent ==
  /\ logSources # <<>>
  /\ \A t \in DOMAIN logSources : tailPos[t] = fileLen[logSources[t]]
  /\ logBuffer = <<>>
  /\ microtasks = <<>>

\* C10: no duplication while the broker stays reachable: a line written to a
\* monitored file is published at most once, and exactly once when nothing is
\* pending any more, whatever the discovery patterns.
NoDuplication ==
  ~everClosed =>
    \A p \in Paths : \A n \in 1..fileLen[p] :
       /\ Cardinality(PublishedOf(p, n)) <= 1
       /\ BatchQuiescent => Cardinality(PublishedOf(p, n)) = 1

\* ---- broker connection of the shippers

TailPending == UNION {{h.lines[i] : i \in DOMAIN h.lines} : h \in dataHandlers}
TailPublishedLines == {tailPublished[i] : i \in DOMAIN tailPublished}

\* C11: a broker outage loses nothing: every line the tail -f shipper has read
\* is published, or is still held by the shipper to be published later.
OutageLosesNothing ==
  \A n \in 1..tailWritten : n \in TailPublishedLines \/ n \in TailPending

\* min(5 s x 1.5^(k-1), 30 s), in half milliseconds
RECURSIVE BackoffDelay(_)
BackoffDelay(k) ==
  IF k = 1 THEN BaseInterval ELSE NextInterval(BackoffDelay(k - 1))

\* C13: reconnect backoff of the shipper: in a sequence of failed attempts
\* (it starts at 5 s after the start and after every successful connection)
\* the timer armed after the k-th failure has delay min(5 s x 1.5^(k-1), 30 s).
ReconnectBackoff ==
  \A k \in DOMAIN tailDelays : tailDelays[k] = BackoffDelay(k)

\* C14: after the connection of the shipper is lost, the shipper eventually
\* makes a new connection attempt (or is connected again).
ReconnectsAfterLoss ==
  (~isConnected) ~> (tailAttempt # "none" \/ isConnected)


\* C12: the batching shipper's local record queue (logBuffer) never holds
\* more than the configured capacity of records; a record arriving at a full
\* queue displaces the oldest one.  The source has no capacity setting: the
\* capacity is scaled to QueueCapacity records here.
QueueBounded == Len(logBuffer) <= QueueCapacity


\* C15: in every reachable state of the aggregator at most one broker
\* connection is open (so each queue has at most one consumer) and at most
\* one reconnect timer is pending, whatever 'error' and 'close' events and
\* reconnect attempts have happened.
OneConnectionOneTimer ==
  /\ aggOpen <= 1
  /\ aggTimers <= 1

\* C16: the aggregator exits for want of a broker connection only when ten
\* connect attempts have failed since the last successful connection.
ExitsAfterTenFailures == aggExited => aggFailures >= MaxRetryCount


\* C17: no message is negatively acknowledged with requeue more than three
\* times: after the third requeue a message whose handler keeps failing is
\* dropped.
RequeuedAtMostThrice == \A id \in DOMAIN requeues : requeues[id] <= 3


\* C18: no history replay: every record written to a subscriber was
\* dispatched after the subscriber registered; a record handled before its
\* registration is never written to it.
NoHistoryReplay ==
  \A c \in DOMAIN clsWritten :
    \A i \in DOMAIN clsWritten[c].records :
      clsWritten[c].records[i] > clsWritten[c].registeredAfter


LastWriteAt(c) == written[c][Len(written[c])].at

\* C19: heartbeat liveness: at every time, every registered subscriber was
\* last written an event (connected, record or heartbeat) less than 45
\* seconds (three units of time) ago, whatever its service filter and whether
\* or not records are dispatched.
HeartbeatLiveness ==
  \A c \in DOMAIN sseClients : hbClock - LastWriteAt(c) < 3

\* a subscriber with a service filter has stayed registered for a minute in
\* which a record of another service was dispatched: it was written no
\* record, and two heartbeats
HeartbeatLivenessWitness ==
  \E c \in DOMAIN sseClients :
    /\ filterOf[c] \in Services
    /\ hbClock >= 4
    /\ written[c][1].at = 0
    /\ Len(logsCollection) >= 1
    /\ LogEvents(c) = {}
    /\ Cardinality({i \in DOMAIN written[c] : written[c][i].event = "heartbeat"}) = 2

BacklogBounded ==
  \A c \in DOMAIN sseClients :
    Cardinality({i \in LogEvents(c) : i > ReadBy(c)}) <= BufferLimit


\* the place of a component in the required startup order
StartupRank(c) ==
  CASE c = "store" -> 1
    [] c = "objectStore" -> 2
    [] c = "broker" -> 3
    [] c = "endpoint" -> 4
    [] c = "scheduler" -> 5
    [] OTHER -> 0

StartedRanks == {StartupRank(started[i]) : i \in DOMAIN started} \ {0}

\* C22: startup is ordered store, object-store client, broker, subscriber
\* endpoint, archival scheduler: a component is started only when every
\* component before it in that order has been started, and once startServer
\* is over either all five are started or the process has exited non-zero.
StartupOrdered ==
  /\ \A i \in DOMAIN started :
       \A r \in 1..(StartupRank(started[i]) - 1) :
         \E j \in 1..(i - 1) : StartupRank(started[j]) = r
  /\ startPc \in {"done", "exited"} =>
       \/ StartedRanks = 1..5
       \/ exitCode = "1"


\* C23: once the SIGTERM handler has started, no message handler runs its
\* ack against the closed channel or its insert against the closed store
\* (which ends the process through an unhandled rejection), no close fails,
\* and the process ends with status zero.
ShutdownOrdered ==
  shutPc # "none" => exitCode \in {"running", "0"}

\* C30: after a successful startup, and without a shutdown signal, no
\* runtime fault ends the aggregator: neither a channel that closes while a
\* handler is in flight nor a consumer callback called with a null message.
NoRuntimeFaultExits ==
  (startPc = "done" /\ shutPc = "none" /\ ~aggExited) => exitCode = "running"


\* C29: the health endpoint reports the broker as connected exactly while a
\* live connection exists; after the connection has closed or errored, and
\* until a reconnection, it reports disconnected.
HealthReflectsBroker == (HealthRabbitmq = "connected") <=> aggOpen > 0


\* ---------------------------------------------------------------------------
\* Record building: the text of a line and what the two shippers make of it
\* ---------------------------------------------------------------------------

\* The longest run of tokens in a line's text.
MaxTokens == 2

\* A line is a sequence of tokens.  A token is a run of characters with no
\* white space in it, or one white-space character: word is the letters in
\* lower case, upper says they are written in capitals, and deco is what is
\* written around them: "bracket" [word], "colon" word:, "suffix" words.
Tok(w, u, d) == [word |-> w, upper |-> u, deco |-> d]

Space == Tok(" ", FALSE, "none")
OpenBrace == Tok("{", FALSE, "none")
CloseBrace == Tok("}", FALSE, "none")
LogKey == Tok("\"log\":", FALSE, "none")
MsgKey == Tok("\"msg\":", FALSE, "none")
StreamKey == Tok(",\"stream\":", FALSE, "none")
DateTok == Tok("2025-09-17", FALSE, "none")
UpperError == Tok("error", TRUE, "none")

Vocabulary ==
  { Space, DateTok, UpperError,
    Tok("hello", FALSE, "none"),
    Tok("warn", TRUE, "bracket"),
    Tok("fatal", FALSE, "colon"),
    Tok("trace", FALSE, "none"),
    Tok("error", FALSE, "suffix") }

TokenSeqs == UNION { [1..n -> Vocabulary] : n \in 0..MaxTokens }

\* String.prototype.trim
RECURSIVE TrimStart(_)
TrimStart(t) == IF t # <<>> /\ Head(t) = Space THEN TrimStart(Tail(t)) ELSE t

RECURSIVE TrimEnd(_)
TrimEnd(t) ==
  IF t # <<>> /\ t[Len(t)] = Space THEN TrimEnd(SubSeq(t, 1, Len(t) - 1)) ELSE t

Trim(t) == TrimEnd(TrimStart(t))

\* String.prototype.toLowerCase, of a text and of a matched group
ToLowerCase(t) == [i \in DOMAIN t |-> [t[i] EXCEPT !.upper = FALSE]]

\* the characters a regular expression's group captured from a token
Captured(tok, w) == [word |-> w, upper |-> tok.upper]

LowerCase(g) == [g EXCEPT !.upper = FALSE]

\* the string a captured group is, as the record's level field holds it
LevelString(g) ==
  IF g.upper
    THEN CASE g.word = "error" -> "ERROR" [] g.word = "warn" -> "WARN"
           [] g.word = "info" -> "INFO" [] g.word = "debug" -> "DEBUG"
           [] g.word = "trace" -> "TRACE" [] g.word = "fatal" -> "FATAL"
           [] OTHER -> "?"
    ELSE g.word

\* a word boundary on both sides: the word stands alone in its token
Bounded(tok) == tok.deco \in {"none", "bracket", "colon"}

\* /\b(w1|w2|...)\b/.test(t), the pattern in lower case and case-sensitive
TestWords(t, ws) ==
  \E i \in DOMAIN t : ~t[i].upper /\ t[i].word \in ws /\ Bounded(t[i])

\* extractLogLevel of the batching shipper
ExtractLogLevel(message) ==
  LET messageLower == ToLowerCase(message)
  IN  IF TestWords(messageLower, {"error", "err", "fatal", "critical"}) THEN "error"
      ELSE IF TestWords(messageLower, {"warn", "warning"}) THEN "warn"
      ELSE IF TestWords(messageLower, {"info", "information"}) THEN "info"
      ELSE IF TestWords(messageLower, {"debug", "trace"}) THEN "debug"
      ELSE "info"

\* (ERROR|WARN|INFO|DEBUG|TRACE|FATAL), matched without regard to case
LevelNames == {"error", "warn", "info", "debug", "trace", "fatal"}

\* the level name a token's letters contain, "" when they contain none
NameWithin(tok) ==
  CASE tok.word \in LevelNames -> tok.word
    [] tok.word = "warning" -> "warn"
    [] tok.word = "information" -> "info"
    [] OTHER -> ""

FirstOf(S) == CHOOSE i \in S : \A j \in S : i <= j

\* line.match(...) || line.match(...) || line.match(...): the captured group
\* of the first pattern that matches, at its leftmost match; <<>> for null
LevelMatch(line) ==
  LET bracketed == {i \in DOMAIN line : line[i].deco = "bracket" /\ line[i].word \in LevelNames}
      colon == {i \in DOMAIN line : line[i].deco = "colon" /\ line[i].word \in LevelNames}
      dated == IF line # <<>> /\ line[1] = DateTok
                 THEN {i \in DOMAIN line : i > 1 /\ NameWithin(line[i]) # ""}
                 ELSE {}
      group(S) == <<Captured(line[FirstOf(S)], NameWithin(line[FirstOf(S)]))>>
  IN  IF bracketed # {} THEN group(bracketed)
      ELSE IF colon # {} THEN group(colon)
      ELSE IF dated # {} THEN group(dated)
      ELSE <<>>

\* levelMatch ? levelMatch[1] : 'info', before the case conversion
ParseLevelAsWritten(line) ==
  LET levelMatch == LevelMatch(line)
  IN  IF levelMatch # <<>> THEN LevelString(levelMatch[1]) ELSE "info"

\* levelMatch ? levelMatch[1].toLowerCase() : 'info'
ParseLevel(line) ==
  LET levelMatch == LevelMatch(line)
  IN  IF levelMatch # <<>> THEN LevelString(LowerCase(levelMatch[1])) ELSE "info"

\* A container runtime's line: {"log":L} or {"log":L,"stream":extra}, with
\* another key for a line with no log field, white space before it when
\* lead is set, and the closing brace missing when the line was cut.
Wrap(lead, key, L, extra, closed) ==
  (IF lead THEN <<Space>> ELSE <<>>) \o <<OpenBrace, key>> \o L
    \o (IF extra = <<>> THEN <<>> ELSE <<StreamKey>> \o extra)
    \o (IF closed THEN <<CloseBrace>> ELSE <<>>)

\* JSON.parse: ok is FALSE when it throws; log is <<>> for undefined and
\* <<L>> for the string L.  White space around the object is allowed.
JsonParse(line) ==
  LET t == Trim(line)
      inner == SubSeq(t, 3, Len(t) - 1)
      cut == {i \in DOMAIN inner : inner[i] = StreamKey}
      first == IF cut = {} THEN inner ELSE SubSeq(inner, 1, FirstOf(cut) - 1)
      ok == /\ Len(t) >= 3
            /\ t[1] = OpenBrace
            /\ t[Len(t)] = CloseBrace
            /\ t[2] \in {LogKey, MsgKey}
            /\ \A i \in DOMAIN inner : inner[i] \notin {OpenBrace, CloseBrace, LogKey, MsgKey}
            /\ Cardinality(cut) <= 1
  IN  IF ~ok THEN [ok |-> FALSE, log |-> <<>>]
      ELSE [ok |-> TRUE, log |-> IF t[2] = LogKey THEN <<first>> ELSE <<>>]

StartsWith(line, tok) == line # <<>> /\ line[1] = tok

\* A log file: the directory it is under, its name without the extension,
\* its extension ("" for none) and the Jenkins job its path names.
File(d, s, e, j) == [dir |-> d, stem |-> s, ext |-> e, job |-> j]

Files ==
  { File("/var/log/", "nginx-access", "log", ""),
    File("/var/log/", "", "log", ""),
    File("/var/log/", "app", "txt", ""),
    File("/var/jenkins_home/", "build", "log", "deploy"),
    File("/var/lib/docker/containers/", "abc-json", "log", ""),
    File("/opt/", "app", "log", "") }

\* a name as the sequence of its parts; <<>> is the empty string
StemOf(f) == IF f.stem = "" THEN <<>> ELSE <<f.stem>>

\* extractServiceFromPath of the batching shipper.  path.extname is '' for a
\* name that begins with its only dot.
ExtractServiceFromPath(filePath) ==
  LET fileName == IF filePath.stem = "" THEN <<".", filePath.ext>> ELSE StemOf(filePath)
  IN  IF fileName = <<"nginx-access">> THEN <<"nginx">> ELSE fileName

\* deriveServiceFromPath of the tail -f shipper
DeriveServiceFromPath(filePath) ==
  IF filePath.dir = "/var/lib/docker/containers/" THEN <<"docker">>
  ELSE IF filePath.dir = "/var/jenkins_home/"
    THEN IF filePath.job # "" THEN <<"jenkins-", filePath.job>> ELSE <<"jenkins">>
  ELSE IF filePath.dir = "/var/log/"
    THEN LET serviceName == IF filePath.ext \in {"log", "out"}
                              THEN StemOf(filePath)
                              ELSE StemOf(filePath) \o <<".", filePath.ext>>
         IN  IF serviceName # <<>> THEN serviceName ELSE <<"system">>
  ELSE <<"unknown">>

\* the sources discoverAndMonitorLogs hands to startMonitoring
LogSourceRecords ==
  { [type |-> "system", path |-> f, service |-> ExtractServiceFromPath(f)] :
      f \in {g \in Files : g.dir = "/var/log/" /\ g.ext = "log"} }
  \cup { [type |-> "docker",
          path |-> File("/var/lib/docker/containers/", "abc-json", "log", ""),
          service |-> <<"container-", "abc">>] }

\* the try block of createLogEntry: error is TRUE when it throws, which it
\* does when JSON.parse throws and when dockerLog.log is not a string
DockerEntryFromLine(line, source) ==
  LET dockerLog == JsonParse(line)
  IN  IF ~dockerLog.ok \/ dockerLog.log = <<>> THEN [error |-> TRUE]
      ELSE [error |-> FALSE,
            entry |-> [service |-> source.service,
                       level |-> ExtractLogLevel(line),
                       message |-> Trim(dockerLog.log[1]),
                       source_type |-> "docker"]]

DockerEntry(line, source) ==
  LET dockerLog == JsonParse(line)
  IN  IF ~dockerLog.ok \/ dockerLog.log = <<>> THEN [error |-> TRUE]
      ELSE [error |-> FALSE,
            entry |-> [service |-> source.service,
                       level |-> ExtractLogLevel(dockerLog.log[1]),
                       message |-> Trim(dockerLog.log[1]),
                       source_type |-> "docker"]]

\* the record createLogEntry returns after the try block
PlainEntry(line, source) ==
  [service |-> source.service,
   level |-> ExtractLogLevel(line),
   message |-> Trim(line),
   source_type |-> source.type]

\* createLogEntry, as far as the fields built from the line and the source
\* go.  The catch clause takes every error of the try block.
CreateLogEntryFields(line, source) ==
  IF source.type = "docker" /\ StartsWith(line, OpenBrace)
    THEN LET tried == DockerEntry(line, source)
         IN  IF tried.error THEN PlainEntry(line, source) ELSE tried.entry
    ELSE PlainEntry(line, source)

\* parseLogLine of the tail -f shipper
ParseLogLine(line, filePath) ==
  [service |-> DeriveServiceFromPath(filePath),
   level |-> ParseLevel(line),
   message |-> Trim(line)]

\* if (line): the test without the trim
IsBlankUntrimmed(line) == line = <<>>

\* !line.trim()
IsBlank(line) == Trim(line) = <<>>

Built(es) == [done |-> TRUE, threw |-> FALSE, entries |-> es]

\* processLogLine of the batching shipper, called by the 'line' event
ProcessLogLine ==
  /\ builderIn.shipper = "batch"
  /\ ~builderOut.done
  /\ builderOut' = IF IsBlank(builderIn.line) THEN Built(<<>>)
                   ELSE Built(<<CreateLogEntryFields(builderIn.line, builderIn.source)>>)
  /\ UNCHANGED <<aggVars, archVars, shipVars, requeues, writeFailed, sinkRead, lifeVars,
                 rabbitmqConnection, otherVars, builderIn, broker, lateVars>>

\* one turn of the loop over the lines of a chunk in startCustomTailing
TailLine ==
  /\ builderIn.shipper = "tail"
  /\ ~builderOut.done
  /\ builderOut' = IF ~IsBlank(builderIn.line)
                     THEN Built(<<ParseLogLine(builderIn.line, builderIn.source)>>)
                     ELSE Built(<<>>)
  /\ UNCHANGED <<aggVars, archVars, shipVars, requeues, writeFailed, sinkRead, lifeVars,
                 rabbitmqConnection, otherVars, builderIn, broker, lateVars>>

\* the lines a container runtime may write: an object with a log field, with
\* or without white space before it and a second field after it, an object
\* without a log field, and an object cut before its closing brace
RuntimeLines ==
  { Wrap(lead, LogKey, L, extra, TRUE) :
      lead \in BOOLEAN, L \in TokenSeqs, extra \in {<<>>, <<UpperError>>} }
  \cup { Wrap(FALSE, MsgKey, L, <<>>, TRUE) : L \in TokenSeqs }
  \cup { Wrap(FALSE, LogKey, L, <<>>, FALSE) : L \in TokenSeqs }

\* the lines a shipper may read
Lines == TokenSeqs \cup RuntimeLines

BuilderInputs ==
  { [shipper |-> "batch", line |-> l, source |-> s] : l \in Lines, s \in LogSourceRecords }
  \cup { [shipper |-> "tail", line |-> l, source |-> f] : l \in TokenSeqs, f \in Files }

\* a shipper with one line read and not yet processed
BuilderInit ==
  /\ Serving
  /\ builderIn \in BuilderInputs
  /\ broker = ConnectRabbitMQDeclares(EmptyBroker)
  /\ Idle
  /\ builderOut = [done |-> FALSE, threw |-> FALSE, entries |-> <<>>]

BuilderNext ==
  \/ ProcessLogLine
  \/ TailLine

BuilderSpec == BuilderInit /\ [][BuilderNext]_vars

BuiltEntries == {builderOut.entries[i] : i \in DOMAIN builderOut.entries}

\* C24: every record a shipper builds has a non-empty message and a
\* non-empty service, whatever the line and the source it was built from,
\* a container runtime's line with an empty or blank log field included.
RecordFieldsNonEmpty ==
  \A e \in BuiltEntries : e.message # <<>> /\ e.service # <<>>

\* a token that spells a level: a level name, or a word a shipper reads as one
SpellsLevel(tok) == NameWithin(tok) # "" \/ tok.word \in {"err", "critical"}

\* C25: the level of a built record is one of trace, debug, info, warn,
\* error and fatal, in lower case, and it is info when no token of the line
\* spells a level.
LevelInEnumeration ==
  \A e \in BuiltEntries :
    /\ e.level \in LevelNames
    /\ (\A i \in DOMAIN builderIn.line : ~SpellsLevel(builderIn.line[i])) => e.level = "info"

\* a record whose level was read off a token written in capitals, and a
\* record that got the default level
LevelInEnumerationWitness ==
  /\ builderIn.shipper = "tail"
  /\ builderOut.done
  /\ builderIn.line = <<Tok("hello", FALSE, "none"), Tok("warn", TRUE, "bracket")>>
  /\ \E e \in BuiltEntries : e.level = "warn"

\* the line is a container runtime's object with the string L as its log field
IsLogObject(line, leads, L) ==
  \E lead \in leads, extra \in {<<>>, <<UpperError>>} :
    line = Wrap(lead, LogKey, L, extra, TRUE)

FromContainer == builderIn.shipper = "batch" /\ builderIn.source.type = "docker"

Unwrapped(leads) ==
  \A L \in TokenSeqs :
    IsLogObject(builderIn.line, leads, L) =>
      /\ ~builderOut.threw
      /\ Len(builderOut.entries) = 1
      /\ builderOut.entries[1].message = Trim(L)
      /\ builderOut.entries[1].level = ExtractLogLevel(L)

PlainFallback(leads) ==
  (/\ StartsWith(builderIn.line, OpenBrace)
   /\ \A L \in TokenSeqs : ~IsLogObject(builderIn.line, leads, L)) =>
      /\ ~builderOut.threw
      /\ Len(builderOut.entries) = 1
      /\ builderOut.entries[1].message = Trim(builderIn.line)
      /\ builderOut.entries[1].level = ExtractLogLevel(builderIn.line)
      /\ builderOut.entries[1].source_type = "docker"

\* C26, as stated: for a container source, any line that parses as an object
\* with a string log field L, white space before the brace or not, gives a
\* record with message trim(L) and the level of L; a line starting with a
\* brace that does not parse so is built as a plain line and nothing throws.
UnwrapsEveryLogObject ==
  (FromContainer /\ builderOut.done) =>
    Unwrapped(BOOLEAN) /\ PlainFallback(BOOLEAN)

\* C26, amended: the same of any line that begins with the brace and parses
\* as an object with a string log field L.
UnwrapsLogObjectAtBrace ==
  (FromContainer /\ builderOut.done) =>
    Unwrapped({FALSE}) /\ PlainFallback({FALSE})

\* a line whose wrapper spells a level its log field does not, and whose log
\* field has white space to trim
UnwrapsLogObjectAtBraceWitness ==
  /\ FromContainer
  /\ builderOut.done
  /\ builderIn.line = Wrap(FALSE, LogKey, <<Space, Tok("hello", FALSE, "none")>>, <<UpperError>>, TRUE)
  /\ builderOut.entries[1].message = <<Tok("hello", FALSE, "none")>>
  /\ builderOut.entries[1].level = "info"

\* C27: a shipper builds exactly one record from a line with anything but
\* white space in it, and none from a line that is empty or all white space.
OneRecordPerLine ==
  builderOut.done =>
    Len(builderOut.entries) =
      IF \E i \in DOMAIN builderIn.line : builderIn.line[i] # Space THEN 1 ELSE 0

\* a line of white space only, processed, with no record built
OneRecordPerLineWitness ==
  /\ builderOut.done
  /\ builderIn.shipper = "batch"
  /\ builderIn.line = <<Space, Space>>
  /\ builderOut.entries = <<>>

\* ---------------------------------------------------------------------------
\* Routing of the shippers' records to the aggregator's queues
\* ---------------------------------------------------------------------------

\* The records published in one behaviour.
RouteMaxMsgs == 2

\* a routing key or a binding pattern split at its dots: a sequence of words,
\* each word the sequence of the parts it was put together from
RECURSIVE SplitAtDots(_)
SplitAtDots(parts) ==
  IF \A i \in DOMAIN parts : parts[i] # "." THEN <<parts>>
  ELSE LET d == FirstOf({i \in DOMAIN parts : parts[i] = "."})
       IN  <<SubSeq(parts, 1, d - 1)>> \o SplitAtDots(SubSeq(parts, d + 1, Len(parts)))

\* `logs.${service}.${host}`
RoutingKey(service, host) == SplitAtDots(<<"logs", ".">> \o service \o <<".">> \o host)

\* the match of a topic exchange: * is exactly one word, # is any number
RECURSIVE TopicMatches(_, _)
TopicMatches(pattern, key) ==
  IF pattern = <<>> THEN key = <<>>
  ELSE IF Head(pattern) = <<"#">>
    THEN TopicMatches(Tail(pattern), key) \/ (key # <<>> /\ TopicMatches(pattern, Tail(key)))
  ELSE IF Head(pattern) = <<"*">>
    THEN key # <<>> /\ TopicMatches(Tail(pattern), Tail(key))
  ELSE key # <<>> /\ Head(key) = Head(pattern) /\ TopicMatches(Tail(pattern), Tail(key))

\* channel.publish(exchange, key, ...) with no mandatory flag: the broker puts
\* the message on every queue bound with a matching pattern, and discards it
\* when there is none
BrokerPublish(b, x, key) ==
  LET n == Len(b.sent) + 1
      targets == {bd.queue : bd \in {c \in b.bindings : c.exchange = x /\ TopicMatches(c.pattern, key)}}
  IN  [b EXCEPT !.sent = Append(@, key),
                !.delivered = [q \in QueueNames |-> IF q \in targets THEN Append(@[q], n) ELSE @[q]],
                !.dropped = IF targets = {} THEN @ \cup {n} ELSE @]

\* os.hostname(), and an address as getInstanceIdentifier returns it
Hostname == <<"host1">>
InstanceIp == <<"10", ".", "0", ".", "0", ".", "1">>

RouteUnchanged ==
  UNCHANGED <<aggVars, archVars, shipVars, requeues, writeFailed, sinkRead, lifeVars,
              rabbitmqConnection, otherVars, builderIn, builderOut, lateVars>>

\* connectRabbitMQ of the tail -f shipper: the exchange
TailShipperDeclares ==
  /\ "tail" \notin broker.connected
  /\ broker' = [broker EXCEPT !.exchanges = @ \cup {"logs_exchange"},
                              !.connected = @ \cup {"tail"}]
  /\ RouteUnchanged

\* initializeRabbitMQ of the batching shipper: the exchange and the queue
BatchShipperDeclares ==
  /\ "batch" \notin broker.connected
  /\ broker' = [broker EXCEPT !.exchanges = @ \cup {"logs_exchange"},
                              !.queues = @ \cup {"raw-logs"},
                              !.connected = @ \cup {"batch"}]
  /\ RouteUnchanged

\* publishLogEntry of the tail -f shipper, for a record of the file f
TailShipperPublishes(f, host) ==
  /\ "tail" \in broker.connected
  /\ Len(broker.sent) < RouteMaxMsgs
  /\ broker' = BrokerPublish(broker, "logs_exchange", RoutingKey(DeriveServiceFromPath(f), host))
  /\ RouteUnchanged

\* publishLog of the batching shipper, for a record of the source s
BatchShipperPublishes(s) ==
  /\ "batch" \in broker.connected
  /\ Len(broker.sent) < RouteMaxMsgs
  /\ broker' = BrokerPublish(broker, "logs_exchange", RoutingKey(s.service, Hostname))
  /\ RouteUnchanged

\* either aggregator has connected and declared what it declares
RouteInit ==
  /\ Serving
  /\ NoLine
  /\ broker \in {ConnectRabbitMQDeclares(EmptyBroker), InitializeRabbitMQDeclares(EmptyBroker)}
  /\ Idle

RouteNext ==
  \/ TailShipperDeclares
  \/ BatchShipperDeclares
  \/ \E f \in Files, host \in {Hostname, InstanceIp} : TailShipperPublishes(f, host)
  \/ \E s \in LogSourceRecords : BatchShipperPublishes(s)

RouteSpec == RouteInit /\ [][RouteNext]_vars

\* C28: every record a shipper publishes to the exchange with the key
\* logs.<service>.<ip-or-host> is put on the raw-logs queue by the bindings
\* the aggregator declares.
RoutedToRawLogs ==
  \A n \in DOMAIN broker.sent :
    \E i \in DOMAIN broker.delivered["raw-logs"] : broker.delivered["raw-logs"][i] = n

\* ---------------------------------------------------------------------------
\* The fetch endpoint GET /api/logs
\* ---------------------------------------------------------------------------

\* The most records the store holds that match one query.
MaxMatching == 1002

\* the limit the endpoint uses when the query names none
DefaultLimit == 100

\* The limit parameter of a query: absent, text that is no number, or the
\* digits of a number, with or without a minus sign.
Absent == [kind |-> "absent", value |-> 0]
NotANumber == [kind |-> "text", value |-> 0]
Digits(n) == [kind |-> "digits", value |-> n]

\* parseInt: NaN for undefined and for text with no leading digits
ParseInt(param) ==
  IF param.kind = "digits" THEN [nan |-> FALSE, value |-> param.value]
  ELSE [nan |-> TRUE, value |-> 0]

\* parseInt(req.query.limit) || 100: NaN and 0 are falsy
LimitOf(param) ==
  LET parsed == ParseInt(param)
  IN  IF parsed.nan \/ parsed.value = 0 THEN DefaultLimit ELSE parsed.value

\* cursor.limit(n).toArray() over m matching records sorted newest first, for
\* n of 1 or more: the n newest.  Records are numbered from the oldest.
FindLimit(m, n) == IF m <= n THEN 1..m ELSE (m - n + 1)..m

LimitParams == {Absent, NotANumber} \cup {Digits(n) : n \in {0, 1, DefaultLimit, 1000, 1001}}

\* a request has arrived: its limit parameter and the records matching its
\* service and level
ApiInit ==
  /\ Serving
  /\ NoLine
  /\ broker = ConnectRabbitMQDeclares(EmptyBroker)
  /\ NoTailers
  /\ NoOutput
  /\ apiRequest \in [limit : LimitParams, matching : 0..MaxMatching]
  /\ apiResponse = [sent |-> FALSE, status |-> 0, logs |-> {}, count |-> 0]

ApiUnchanged ==
  UNCHANGED <<aggVars, archVars, shipVars, requeues, writeFailed, sinkRead, lifeVars,
              rabbitmqConnection, otherVars, builderIn, builderOut, broker, apiRequest,
              tailerVars, splitVars>>

\* app.get('/api/logs'), the find resolving
GetLogs ==
  /\ ~apiResponse.sent
  /\ LET logs == FindLimit(apiRequest.matching, LimitOf(apiRequest.limit))
     IN  apiResponse' = [sent |-> TRUE, status |-> 200, logs |-> logs, count |-> Cardinality(logs)]
  /\ ApiUnchanged

\* app.get('/api/logs'), the find rejecting
GetLogsFails ==
  /\ ~apiResponse.sent
  /\ apiResponse' = [sent |-> TRUE, status |-> 500, logs |-> {}, count |-> 0]
  /\ ApiUnchanged

ApiNext ==
  \/ GetLogs
  \/ GetLogsFails

ApiSpec == ApiInit /\ [][ApiNext]_vars

\* the limit a request asks for: DefaultLimit when absent or not a number
RequestedLimit ==
  IF apiRequest.limit \in {Absent, NotANumber} THEN DefaultLimit ELSE apiRequest.limit.value

\* C31: the fetch endpoint returns at most limit records, with limit 100 when
\* the parameter is absent or not a number, never more than 1000 records
\* whatever limit is asked for, and count is the number of records returned.
FetchLimited ==
  (apiResponse.sent /\ apiResponse.status = 200) =>
    /\ Cardinality(apiResponse.logs) <= RequestedLimit
    /\ Cardinality(apiResponse.logs) <= 1000
    /\ apiResponse.count = Cardinality(apiResponse.logs)

\* ---------------------------------------------------------------------------
\* The tail processes of the tail -f shipper, their restarts, and its shutdown
\* ---------------------------------------------------------------------------

\* The termination signals one process receives.
MaxSignals == 2

ShipperRunning == shipperExit = "running"

TailerUnchanged ==
  UNCHANGED <<aggVars, archVars, shipVars, requeues, writeFailed, sinkRead, lifeVars,
              rabbitmqConnection, otherVars, builderIn, builderOut, broker, apiVars, missing,
              splitVars>>

ShutdownUnchanged == UNCHANGED <<tailProcess, exitTimers, errorTimers, startedInShutdown>>

\* tailProcess.on('exit'): the tail process of a path has ended, as tail does
\* when it cannot open its file; a restart timer is armed unless shutting down
TailExits(p) ==
  /\ ShipperRunning
  /\ tailProcess[p] > 0
  /\ tailProcess' = [tailProcess EXCEPT ![p] = @ - 1]
  /\ exitTimers' = IF isShuttingDown THEN exitTimers ELSE [exitTimers EXCEPT ![p] = @ + 1]
  /\ UNCHANGED <<errorTimers, isShuttingDown, shutdownPcs, tailChannel, tailConn,
                 shipperExit, startedInShutdown>>
  /\ TailerUnchanged

\* tailProcess.on('error'): the process could not be spawned; the restart
\* timer is armed whatever isShuttingDown is
TailSpawnFails(p) ==
  /\ ShipperRunning
  /\ tailProcess[p] > 0
  /\ tailProcess' = [tailProcess EXCEPT ![p] = @ - 1]
  /\ errorTimers' = [errorTimers EXCEPT ![p] = @ + 1]
  /\ UNCHANGED <<exitTimers, isShuttingDown, shutdownPcs, tailChannel, tailConn,
                 shipperExit, startedInShutdown>>
  /\ TailerUnchanged

\* the timer of the 'exit' handler fires: startCustomTailing([path])
ExitTimerFires(p) ==
  /\ ShipperRunning
  /\ exitTimers[p] > 0
  /\ exitTimers' = [exitTimers EXCEPT ![p] = @ - 1]
  /\ tailProcess' = [tailProcess EXCEPT ![p] = @ + 1]
  /\ startedInShutdown' = (startedInShutdown \/ isShuttingDown)
  /\ UNCHANGED <<errorTimers, isShuttingDown, shutdownPcs, tailChannel, tailConn, shipperExit>>
  /\ TailerUnchanged

\* the timer of the 'error' handler fires: startCustomTailing([path]) if
\* not shutting down
ErrorTimerFires(p) ==
  /\ ShipperRunning
  /\ errorTimers[p] > 0
  /\ errorTimers' = [errorTimers EXCEPT ![p] = @ - 1]
  /\ tailProcess' = IF isShuttingDown THEN tailProcess ELSE [tailProcess EXCEPT ![p] = @ + 1]
  /\ UNCHANGED <<exitTimers, isShuttingDown, shutdownPcs, tailChannel, tailConn,
                 shipperExit, startedInShutdown>>
  /\ TailerUnchanged

\* SIGTERM or SIGINT: gracefulShutdown starts, up to its first await
ShipperSignal ==
  /\ ShipperRunning
  /\ Len(shutdownPcs) < MaxSignals
  /\ isShuttingDown' = TRUE
  /\ shutdownPcs' = Append(shutdownPcs, "deleteBucket")
  /\ UNCHANGED <<tailChannel, tailConn, shipperExit>>
  /\ ShutdownUnchanged
  /\ TailerUnchanged

\* gracefulShutdown after the bucket deletion settled either way: it calls
\* rabbitmqChannel.close(), which throws on a channel not open
ShutdownClosesChannel(i) ==
  /\ ShipperRunning
  /\ i \in DOMAIN shutdownPcs
  /\ shutdownPcs[i] = "deleteBucket"
  /\ IF tailChannel = "open"
       THEN /\ tailChannel' = "closing"
            /\ shutdownPcs' = [shutdownPcs EXCEPT ![i] = "channelClosing"]
            /\ UNCHANGED shipperExit
       ELSE /\ shipperExit' = "1"
            /\ shutdownPcs' = [shutdownPcs EXCEPT ![i] = "threw"]
            /\ UNCHANGED tailChannel
  /\ UNCHANGED <<isShuttingDown, tailConn>>
  /\ ShutdownUnchanged
  /\ TailerUnchanged

\* the channel has closed: gracefulShutdown calls rabbitmqConnection.close(),
\* which throws on a connection not open
ShutdownClosesConnection(i) ==
  /\ ShipperRunning
  /\ i \in DOMAIN shutdownPcs
  /\ shutdownPcs[i] = "channelClosing"
  /\ tailChannel' = "closed"
  /\ IF tailConn = "open"
       THEN /\ tailConn' = "closing"
            /\ shutdownPcs' = [shutdownPcs EXCEPT ![i] = "connectionClosing"]
            /\ UNCHANGED shipperExit
       ELSE /\ shipperExit' = "1"
            /\ shutdownPcs' = [shutdownPcs EXCEPT ![i] = "threw"]
            /\ UNCHANGED tailConn
  /\ UNCHANGED isShuttingDown
  /\ ShutdownUnchanged
  /\ TailerUnchanged

\* the connection has closed: process.exit(0)
ShutdownExits(i) ==
  /\ ShipperRunning
  /\ i \in DOMAIN shutdownPcs
  /\ shutdownPcs[i] = "connectionClosing"
  /\ tailConn' = "closed"
  /\ shipperExit' = "0"
  /\ shutdownPcs' = [shutdownPcs EXCEPT ![i] = "exited"]
  /\ UNCHANGED <<isShuttingDown, tailChannel>>
  /\ ShutdownUnchanged
  /\ TailerUnchanged

\* main has called startCustomTailing(LOG_PATHS) with the broker connected;
\* some of the files may be missing
TailerInit ==
  /\ Serving
  /\ NoLine
  /\ broker = ConnectRabbitMQDeclares(EmptyBroker)
  /\ NoRequest
  /\ NoOutput
  /\ tailProcess = [p \in LogPaths |-> 1]
  /\ exitTimers = [p \in LogPaths |-> 0]
  /\ errorTimers = [p \in LogPaths |-> 0]
  /\ missing \in SUBSET LogPaths
  /\ isShuttingDown = FALSE
  /\ shutdownPcs = <<>>
  /\ tailChannel = "open"
  /\ tailConn = "open"
  /\ shipperExit = "running"
  /\ startedInShutdown = FALSE

TailerNext ==
  \/ \E p \in LogPaths : TailExits(p)
  \/ \E p \in LogPaths : TailSpawnFails(p)
  \/ \E p \in LogPaths : ExitTimerFires(p)
  \/ \E p \in LogPaths : ErrorTimerFires(p)
  \/ ShipperSignal
  \/ \E i \in 1..MaxSignals : ShutdownClosesChannel(i)
  \/ \E i \in 1..MaxSignals : ShutdownClosesConnection(i)
  \/ \E i \in 1..MaxSignals : ShutdownExits(i)

TailerSpec == TailerInit /\ [][TailerNext]_vars

\* timers fire, and a tail process whose file is missing ends
TailerLiveSpec ==
  /\ TailerSpec
  /\ \A p \in LogPaths : WF_vars(ExitTimerFires(p))
  /\ \A p \in LogPaths : WF_vars(ErrorTimerFires(p))
  /\ \A p \in LogPaths : WF_vars(p \in missing /\ TailExits(p))

\* C32: at most one tailer is active per source path, and so no two of the
\* sources a shipper monitors are the same path.
OneTailerPerSource ==
  /\ \A i, j \in DOMAIN logSources : logSources[i] = logSources[j] => i = j
  /\ \A p \in LogPaths : tailProcess[p] <= 1

TailerIdle(p) == tailProcess[p] = 0 /\ exitTimers[p] = 0 /\ errorTimers[p] = 0

\* C33: a tailer whose source stays missing or unreadable gives the source up
\* in the end: from some time on it has no tail process and no restart timer.
AbandonsMissingSource ==
  \A p \in LogPaths : <>[](p \in missing => (~ShipperRunning \/ TailerIdle(p)))

\* C39: once isShuttingDown is set, no timer armed before it starts a tail
\* process when it fires.
NoStartAfterShutdown == ~startedInShutdown

\* C40: the shutdown sequence runs at most once: a second signal starts no
\* second close of the channel or the connection, and the exit status of a
\* shutdown is zero.
ShutdownRunsOnce ==
  /\ Cardinality({i \in DOMAIN shutdownPcs : shutdownPcs[i] # "deleteBucket"}) <= 1
  /\ shutdownPcs # <<>> => shipperExit \in {"running", "0"}

\* ---------------------------------------------------------------------------
\* The lines of a tail process's output, read in chunks
\* ---------------------------------------------------------------------------

\* The most bytes a tail process writes.
MaxBytes == 4

\* Bytes: the letter a, the newline, and the two bytes of e with an acute
\* accent in UTF-8.
LetterByte == "61"
NewlineByte == "0A"
LeadByte == "C3"
ContinuationByte == "A9"

\* the well-formed UTF-8 streams of n bytes
RECURSIVE Utf8Streams(_)
Utf8Streams(n) ==
  IF n = 0 THEN {<<>>}
  ELSE {<<b>> \o t : b \in {LetterByte, NewlineByte}, t \in Utf8Streams(n - 1)}
       \cup (IF n >= 2 THEN {<<LeadByte, ContinuationByte>> \o t : t \in Utf8Streams(n - 2)}
             ELSE {})

\* chunk.toString(): the characters of one chunk decoded on its own.  A lead
\* byte with no continuation byte after it in the chunk, and a continuation
\* byte with no lead byte before it, each become the replacement character.
RECURSIVE ChunkToString(_)
ChunkToString(chunk) ==
  IF chunk = <<>> THEN <<>>
  ELSE IF Head(chunk) = LetterByte THEN <<"a">> \o ChunkToString(Tail(chunk))
  ELSE IF Head(chunk) = NewlineByte THEN <<"LF">> \o ChunkToString(Tail(chunk))
  ELSE IF Head(chunk) = LeadByte /\ Len(chunk) >= 2 /\ chunk[2] = ContinuationByte
    THEN <<"e-acute">> \o ChunkToString(Tail(Tail(chunk)))
  ELSE <<"U+FFFD">> \o ChunkToString(Tail(chunk))

\* text.split('\n')
RECURSIVE SplitLines(_)
SplitLines(text) ==
  IF \A i \in DOMAIN text : text[i] # "LF" THEN <<text>>
  ELSE LET n == FirstOf({i \in DOMAIN text : text[i] = "LF"})
       IN  <<SubSeq(text, 1, n - 1)>> \o SplitLines(SubSeq(text, n + 1, Len(text)))

\* the lines the loop takes up: those with line.trim() not empty
RECURSIVE NonEmptyLines(_)
NonEmptyLines(lines) ==
  IF lines = <<>> THEN <<>>
  ELSE (IF Head(lines) # <<>> THEN <<Head(lines)>> ELSE <<>>) \o NonEmptyLines(Tail(lines))

\* the 'data' callback of startCustomTailing on one chunk, up to the loop:
\* the new buffer and the lines the loop goes through
OnData(buffer, chunk) ==
  LET lines == SplitLines(buffer \o ChunkToString(chunk))
  IN  [buffer |-> lines[Len(lines)],
       lines |-> NonEmptyLines(SubSeq(lines, 1, Len(lines) - 1))]

SplitUnchanged ==
  UNCHANGED <<aggVars, archVars, shipVars, requeues, writeFailed, sinkRead, lifeVars,
              rabbitmqConnection, otherVars, builderIn, builderOut, broker, apiVars,
              tailerVars, stdoutBytes>>

\* stdout emits 'data' with the next n bytes
StdoutData(n) ==
  /\ n >= 1
  /\ stdoutRead + n <= Len(stdoutBytes)
  /\ LET r == OnData(lineBuffer, SubSeq(stdoutBytes, stdoutRead + 1, stdoutRead + n))
     IN  /\ lineBuffer' = r.buffer
         /\ emittedLines' = emittedLines \o r.lines
  /\ stdoutRead' = stdoutRead + n
  /\ SplitUnchanged

\* a tail process with its whole output chosen and nothing read yet
SplitInit ==
  /\ Serving
  /\ NoLine
  /\ broker = ConnectRabbitMQDeclares(EmptyBroker)
  /\ NoRequest
  /\ NoTailers
  /\ stdoutBytes \in UNION {Utf8Streams(n) : n \in 0..MaxBytes}
  /\ stdoutRead = 0
  /\ lineBuffer = <<>>
  /\ emittedLines = <<>>

SplitNext == \E n \in 1..MaxBytes : StdoutData(n)

SplitSpec == SplitInit /\ [][SplitNext]_vars

\* C34: however the output is cut into chunks, once it is all read the lines
\* emitted are those of the output read as one chunk, and the fragment after
\* the last newline is held back and not emitted.
SplitIndependentOfChunks ==
  stdoutRead = Len(stdoutBytes) =>
    /\ emittedLines = OnData(<<>>, stdoutBytes).lines
    /\ lineBuffer = OnData(<<>>, stdoutBytes).buffer

\* the broker connection closes while a flushBuffer is suspended between
\* two publishLog calls: the next publish on the channel throws
ConnectionClosesDuringFlush ==
  /\ channelOpen
  /\ microtasks # <<>>
  /\ channelOpen' = FALSE
  /\ everClosed' = TRUE
  /\ UNCHANGED <<logSources, fileLen, tailPos, logBuffer, batchTimer,
                 microtasks, published>>
  /\ UNCHANGED <<aggVars, archVars, tailVars>>
  /\ UNCHANGED extVars

FlushFailNext ==
  \/ \E logPaths \in LogPathsSettings : DiscoverAndMonitorLogs(logPaths)
  \/ \E p \in Paths : WriteLine(p)
  \/ \E t \in DOMAIN logSources : TailReads(t)
  \/ BatchTimerFires
  \/ RunMicrotask
  \/ ConnectionCloses
  \/ ConnectionClosesDuringFlush
  \/ Reconnected

\* the batching shipper, with a broker that may go away at any time
FlushFailSpec == Init /\ [][FlushFailNext]_vars

\* C35: after a publish of a flush has failed, the records of the batch that
\* were already published are not put back in the local queue: with every
\* path monitored once, no record of the queue is a published one.
PutBackOnlyUnpublished ==
  (\A i, j \in DOMAIN logSources : logSources[i] = logSources[j] => i = j) =>
    \A i \in DOMAIN logBuffer : \A k \in DOMAIN published : logBuffer[i] # published[k]

\* C38: whenever no flush is under way and the buffer holds records, fewer
\* than batchSize, the batch timer is armed, also after a flush that failed
\* and put its records back.
TimerArmedWhilePending ==
  (microtasks = <<>> /\ logBuffer # <<>> /\ Len(logBuffer) < BatchSize) => batchTimer

\* C36: a run of the archival whose existence check reported the bucket missing
\* and whose create found it already there goes on to upload and mark: while
\* no store or object-store call rejects for another reason, no run ends at
\* the bucket stage
CreateRaceIsSuccess ==
  ~faults => \A r \in DOMAIN runs : runs[r].failedAt # "bucket"


\* ------------------------------------------------------ enrichment events

EnrichNext ==
  \/ \E s \in Services : PublishRaw(s, TRUE, HubMaxMsgs)
  \/ DeliverRaw(MaxDeliveries)
  \/ \E h \in rawHandlers : InsertOk(h)
  \/ \E f \in Services \cup {NoFilter} : Register(f, MaxClients)
  \/ \E k \in 1..HubMaxMsgs : PublishEnriched(k, Undefined)
  \/ DeliverEnriched(MaxDeliveries)
  \/ \E h \in aiHandlers : UpdateOk(h)

\* the two consumers, the store and the subscriber hub, with no failing call
EnrichSpec == Init /\ [][EnrichNext]_vars

\* the subscribers entitled to the events of the persisted record k
Entitled(k) ==
  {c \in DOMAIN sseClients :
     sseClients[c].serviceFilter \in {NoFilter, logsCollection[k].service}}

\* the ai-enriched callback of delivery h has run to its ack in this step
EnrichedSettled(h) ==
  /\ h \in aiHandlers
  /\ h \notin aiHandlers'
  /\ <<"ai-enriched", h.tag>> \in acked'

\* this step wrote subscriber c the enrichment event of delivery h
WroteSuggestion(c, h) ==
  /\ Len(written'[c]) = Len(written[c]) + 1
  /\ written'[c][Len(written'[c])].event = "ai-suggestion"
  /\ written'[c][Len(written'[c])].id = h.msg.id

\* no subscriber has been written an enrichment event for an identifier that
\* matches no persisted record
NoSuggestionForUnmatched ==
  \A c \in DOMAIN written : \A i \in DOMAIN written[c] :
    written[c][i].event = "ai-suggestion" => written[c][i].id \in DOMAIN logsCollection

\* C37: for every message consumed from the ai-enriched queue whose update
\* matched a persisted record, the enrichment event is written to every
\* unfiltered subscriber and to every subscriber whose filter is the service
\* of that record; no enrichment event is written for an identifier that
\* matches no persisted record
EnrichmentToEntitled ==
  /\ []NoSuggestionForUnmatched
  /\ [][\A h \in aiHandlers :
          (EnrichedSettled(h) /\ h.msg.logId \in DOMAIN logsCollection) =>
            \A c \in Entitled(h.msg.logId) : WroteSuggestion(c, h)]_vars

====
